---- MODULE Spec2Model ----
(***************************************************************************)
(* A model of the attribution engine of src/AttributionEngine.py: the UTM  *)
(* extractors, the channel classifier, the per-order attribution loop with *)
(* its two reclassification passes, and the hourly granular join.          *)
(*                                                                         *)
(* Python values are modelled as follows.  A str is a TLA+ string, on      *)
(* which TLC evaluates Len, SubSeq and \o.  An optional value is a tuple:  *)
(* <<>> is None and <<v>> carries v.                                       *)
(***************************************************************************)
EXTENDS Integers, Sequences, FiniteSets, TLC

VARIABLES
    mode,       \* which entry point of the engine this behaviour exercises
    dc_in,      \* determine_channel: the five arguments
    dc_out,     \* determine_channel: the returned label, None before the call
    ex_in,      \* an extractor's argument: [kind, payload]
    ex_out,     \* the extractor's return: <<"pending">>, <<"returned", record or None>>
    mc_in,      \* map_attribution_to_campaign: [attribution_data, daily_ads, channel]
    mc_out,     \* its return: <<"pending">>, <<"returned", mapping or None>>
    hp_in,      \* a helper or a pair of passes called alone: [fn, arg]
    hp_out,     \* what it returned, and what it returned for that again
    orders_df,  \* self.orders_df: the orders, in order_id order
    ads_df,     \* self.ads_df: the hourly ad rows
    pc,         \* where the batch run stands
    order_idx,  \* process_attribution: the next order of the loop
    results,    \* process_attribution: the rows the loop has appended
    calls,      \* per order_id, the extractors the loop called, in call order
    results_df, \* the table process_attribution returns
    granular,   \* the table create_granular_insights returns
    results_columns,    \* the column names of results_df
    granular_columns    \* the column names of granular

vars == <<mode, dc_in, dc_out, ex_in, ex_out, mc_in, mc_out, hp_in, hp_out,
          orders_df, ads_df, pc, order_idx, results, calls, results_df, granular,
          results_columns, granular_columns>>

pipeline_vars == <<orders_df, ads_df, pc, order_idx, results, calls, results_df, granular,
                   results_columns, granular_columns>>

\* the batch run's variables while the model exercises one function alone
PipelineIdle ==
    /\ orders_df = <<>> /\ ads_df = <<>> /\ pc = "idle" /\ order_idx = 0
    /\ results = <<>> /\ calls = <<>> /\ results_df = <<>> /\ granular = <<>>
    /\ results_columns = {} /\ granular_columns = {}

-----------------------------------------------------------------------------
(* Python values *)

None == <<>>

Some(v) == <<v>>

Val(o) == o[1]

\* bool(x) of an optional str: None and '' are falsy
Truthy(o) == o # None /\ Val(o) # ""

-----------------------------------------------------------------------------
(* str methods *)

UpperAlpha == "ABCDEFGHIJKLMNOPQRSTUVWXYZ"

LowerAlpha == "abcdefghijklmnopqrstuvwxyz"

CharAt(s, i) == SubSeq(s, i, i)

\* p in s
Contains(s, p) ==
    \E i \in 1..(Len(s) - Len(p) + 1) : SubSeq(s, i, i + Len(p) - 1) = p

\* s.startswith(p)
StartsWith(s, p) == Len(p) <= Len(s) /\ SubSeq(s, 1, Len(p)) = p

LowerChar(c) ==
    IF \E i \in 1..Len(UpperAlpha) : CharAt(UpperAlpha, i) = c
    THEN CharAt(LowerAlpha, CHOOSE i \in 1..Len(UpperAlpha) : CharAt(UpperAlpha, i) = c)
    ELSE c

RECURSIVE Lower(_)
\* s.lower()
Lower(s) ==
    IF s = "" THEN "" ELSE LowerChar(CharAt(s, 1)) \o Lower(SubSeq(s, 2, Len(s)))

IsSpace(c) == c = " "

RECURSIVE LStrip(_)
LStrip(s) ==
    IF s # "" /\ IsSpace(CharAt(s, 1)) THEN LStrip(SubSeq(s, 2, Len(s))) ELSE s

RECURSIVE RStrip(_)
RStrip(s) ==
    IF s # "" /\ IsSpace(CharAt(s, Len(s))) THEN RStrip(SubSeq(s, 1, Len(s) - 1)) ELSE s

\* s.strip()
Strip(s) == RStrip(LStrip(s))

\* any(k in s for k in ks)
AnyIn(ks, s) == \E k \in ks : Contains(s, k)

-----------------------------------------------------------------------------
(* Numbers and their text *)

Digits == "0123456789"

IsDigit(c) == \E i \in 1..Len(Digits) : CharAt(Digits, i) = c

DigitVal(c) == (CHOOSE i \in 1..Len(Digits) : CharAt(Digits, i) = c) - 1

DigitChar(d) == CharAt(Digits, d + 1)

RECURSIVE NatToStr(_)
NatToStr(n) == IF n < 10 THEN DigitChar(n) ELSE NatToStr(n \div 10) \o DigitChar(n % 10)

\* str(n) of an int
IntToStr(n) == IF n < 0 THEN "-" \o NatToStr(-n) ELSE NatToStr(n)

RECURSIVE AllDigits(_)
AllDigits(s) == s = "" \/ (IsDigit(CharAt(s, 1)) /\ AllDigits(SubSeq(s, 2, Len(s))))

RECURSIVE DigitsToNat(_, _)
\* the number a digit string denotes, acc the value of the digits read so far
DigitsToNat(s, acc) ==
    IF s = "" THEN acc
    ELSE DigitsToNat(SubSeq(s, 2, Len(s)), acc * 10 + DigitVal(CharAt(s, 1)))

RECURSIVE Pow10(_)
Pow10(k) == IF k = 0 THEN 1 ELSE 10 * Pow10(k - 1)

\* the first index of character c in s, 0 when there is none
IndexOf(s, c) ==
    IF \E i \in 1..Len(s) : CharAt(s, i) = c
    THEN CHOOSE i \in 1..Len(s) : CharAt(s, i) = c /\ \A j \in 1..(i - 1) : CharAt(s, j) # c
    ELSE 0

\* a leading sign split off: <<sign, rest>>
SplitSign(s) ==
    IF s # "" /\ CharAt(s, 1) = "-" THEN <<-1, SubSeq(s, 2, Len(s))>>
    ELSE IF s # "" /\ CharAt(s, 1) = "+" THEN <<1, SubSeq(s, 2, Len(s))>>
    ELSE <<1, s>>

\* the part of s before the first c, s itself when there is no c
Before(s, c) == IF IndexOf(s, c) = 0 THEN s ELSE SubSeq(s, 1, IndexOf(s, c) - 1)

\* the part of s after the first c, absent when there is no c
After(s, c, absent) ==
    IF IndexOf(s, c) = 0 THEN absent ELSE SubSeq(s, IndexOf(s, c) + 1, Len(s))

\* the integer part of digits * 10^scale
Scaled(digits, scale) ==
    IF scale >= 0 THEN digits * Pow10(scale) ELSE digits \div Pow10(-scale)

\* the value of sign whole.frac e exponent, exponent a <<sign, digits>> pair
IntOfParts(sign, whole, frac, exponent) ==
    IF /\ AllDigits(whole) /\ AllDigits(frac) /\ whole \o frac # ""
       /\ AllDigits(exponent[2]) /\ exponent[2] # ""
    THEN <<"ok", sign * Scaled(DigitsToNat(whole \o frac, 0),
                               exponent[1] * DigitsToNat(exponent[2], 0) - Len(frac))>>
    ELSE <<"err">>

\* the value of sign mantissa e exponent
IntOfMantissa(sign, mantissa, exponent) ==
    IntOfParts(sign, Before(mantissa, "."), After(mantissa, ".", ""), exponent)

\* the value of a <<sign, body>> pair
IntOfSigned(signed) ==
    IntOfMantissa(signed[1], Before(signed[2], "e"), SplitSign(After(signed[2], "e", "0")))

\* int(float(text)) for a decimal literal with an optional fraction and
\* exponent: <<"ok", n>>, or <<"err">> where float() raises ValueError.  The
\* value is exact: the model's IDs stay below 2^53.
IntOfFloatText(text) == IntOfSigned(SplitSign(Lower(Strip(text))))

-----------------------------------------------------------------------------
(* Identifiers and hour labels (helpers of create_granular_insights) *)

\* An identifier column holds None, an int (<<"int", n>>), a str
\* (<<"str", s>>) or a float: NaN, or the finite float of tenths / 10
\* (<<"float", tenths>>).
IntId(n) == <<"int", n>>

StrId(s) == <<"str", s>>

FloatId(tenths) == <<"float", tenths>>

NaN == <<"nan">>

\* int(x) of the float tenths / 10: toward zero
IntOfFloat(tenths) == IF tenths < 0 THEN 0 - ((0 - tenths) \div 10) ELSE tenths \div 10

\* str(x) of an identifier
IdToStr(id) ==
    IF id = None THEN "None"
    ELSE IF id[1] = "int" THEN IntToStr(id[2])
    ELSE id[2]

\* a mutant: the text of the value as it stands
_fix_id_Verbatim(val) ==
    IF val = None \/ val = StrId("") \/ val = StrId("Unknown") \/ val = NaN THEN "Unknown"
    ELSE IF val[1] = "int" THEN IntToStr(val[2])
    ELSE IF val[1] = "float" THEN IntToStr(IntOfFloat(val[2]))
    ELSE val[2]

_fix_id(val) ==
    IF val = None \/ val = StrId("") \/ val = StrId("Unknown") \/ val = NaN THEN "Unknown"
    ELSE IF val[1] = "int" THEN IntToStr(val[2])
    ELSE IF val[1] = "float" THEN IntToStr(IntOfFloat(val[2]))
    ELSE LET n == IntOfFloatText(val[2]) IN
         IF n[1] = "ok" THEN IntToStr(n[2]) ELSE val[2]

\* f"{hh:02d}:00:00 - {hh:02d}:59:59"
HourLabel(hh) ==
    LET h2 == DigitChar(hh \div 10) \o DigitChar(hh % 10)
    IN  h2 \o ":00:00 - " \o h2 \o ":59:59"

\* re.search(r'(\d{1,2})', s): the first one or two digits, "" when no digit
FirstHourDigits(s) ==
    IF \E i \in 1..Len(s) : IsDigit(CharAt(s, i))
    THEN LET i == CHOOSE k \in 1..Len(s) :
                     IsDigit(CharAt(s, k)) /\ \A j \in 1..(k - 1) : ~IsDigit(CharAt(s, j))
         IN  IF i < Len(s) /\ IsDigit(CharAt(s, i + 1)) THEN SubSeq(s, i, i + 1)
             ELSE CharAt(s, i)
    ELSE ""

\* a mutant: the hour read is not reduced modulo 24
_normalize_hourly_window_AsRead(s) ==
    IF s = None THEN None
    ELSE LET m == FirstHourDigits(Val(s)) IN
         IF m = "" THEN None
         ELSE Some(HourLabel(DigitsToNat(m, 0)))

\* None when no hour can be read
_normalize_hourly_window(s) ==
    IF s = None THEN None
    ELSE LET m == FirstHourDigits(Val(s)) IN
         IF m = "" THEN None
         ELSE Some(HourLabel(DigitsToNat(m, 0) % 24))

\* a timestamp is None (NaT) or <<[date, hour]>>
_format_hour_window(ts) ==
    IF ts = None THEN None ELSE Some(HourLabel(Val(ts).hour))

-----------------------------------------------------------------------------
(* determine_channel *)

\* str(x).lower().strip() if x else ''
LowerStrip(o) == IF Truthy(o) THEN Strip(Lower(Val(o))) ELSE ""

organic_indicators == {"organic", "search", "natural", "seo", "unpaid"}

search_engines == {"bing", "yahoo", "duckduckgo", "baidu", "yandex", "qwant"}

meta_indicators == {"facebook", "fb", "instagram", "ig", "meta", "igshopping"}

google_indicators == {"google", "an"}

direct_indicators == {"direct", "none", "null", ""}

domain_suffixes == {".com", ".co.", ".org", ".net", ".in", ".uk"}

NoCampaign(c) == c \in {"", "null", "none"}

\* a classifier that answers with the label of the static channel_mapping table
\* ('Direct/Unknown') when it finds no source
ChannelWithoutCampaign_TableLabel(s, m, c, ct, t) ==
    IF s = "" /\ m = "" THEN "Direct/Unknown"
    ELSE IF AnyIn(organic_indicators, m) \/ AnyIn(organic_indicators, s) THEN "Organic"
    ELSE IF AnyIn(meta_indicators, s) THEN "Meta"
    ELSE IF Contains(s, "google") THEN "Google"
    ELSE "Direct"

\* the classification once the campaign rule has not fired
ChannelWithoutCampaign(s, m, c, ct, t) ==
    IF AnyIn(organic_indicators, m) THEN "Organic"
    ELSE IF AnyIn(organic_indicators, s) THEN "Organic"
    ELSE IF AnyIn(search_engines, s) THEN "Organic"
    ELSE IF Contains(s, "google") \/ Contains(m, "google")
        THEN IF ~NoCampaign(c) THEN "Google"
             ELSE IF ct # "" \/ t # "" THEN "Google"
             ELSE "Organic"
    ELSE IF Contains(s, "googleadservices") \/ Contains(m, "googleadservices") THEN "Google"
    ELSE IF AnyIn(meta_indicators, s) THEN "Meta"
    ELSE IF s = "{{site_source_name}}" THEN "Meta"
    ELSE IF AnyIn(google_indicators, s) THEN "Google"
    ELSE IF s \in direct_indicators \/ m \in direct_indicators
        THEN IF s # "" /\ s \notin {"", "null", "none"} /\ Len(s) > 1 THEN "Organic"
             ELSE "Direct"
    ELSE IF m = "referral" THEN "Organic"
    ELSE IF s # "" /\ s \notin {"", "null", "none"} /\ AnyIn(domain_suffixes, s)
        THEN IF AnyIn(search_engines \cup {"google"}, s) THEN "Organic"
             ELSE IF AnyIn(meta_indicators, s) THEN "Meta"
             ELSE "Organic"
    ELSE IF m # "" /\ m \notin {"", "null", "none"}
            /\ m \in {"search", "organic", "natural", "seo", "unpaid",
                      "social", "social-media", "socialmedia", "referral", "email", "cpc"}
        THEN IF m \in {"search", "organic", "natural", "seo", "unpaid"} THEN "Organic"
             ELSE IF m \in {"social", "social-media", "socialmedia"} THEN "Meta"
             ELSE IF m = "referral" THEN "Organic"
             ELSE IF m = "email" THEN "Direct"
             ELSE IF Contains(s, "google") THEN "Google"
             ELSE IF AnyIn(meta_indicators, s) THEN "Meta"
             ELSE "Google"
    ELSE IF s = "" \/ s \in {"", "null", "none"} THEN "Direct"
    ELSE "Organic"

\* a campaign rule that never looks for Google
ChannelWithCampaign_AlwaysMeta(s, m) == "Meta"

\* a campaign rule that looks for 'google' in the source only
ChannelWithCampaign_SourceOnly(s, m) ==
    IF Contains(s, "google") THEN "Google" ELSE "Meta"

\* the campaign rule (PRIORITY 1)
ChannelWithCampaign(s, m) ==
    IF Contains(s, "google") \/ Contains(m, "google") \/ Contains(s, "googleadservices")
    THEN "Google"
    ELSE IF AnyIn(meta_indicators, s) THEN "Meta"
    ELSE "Meta"

determine_channel(source, medium, campaign, content, term) ==
    LET s  == LowerStrip(source)
        m  == LowerStrip(medium)
        c  == LowerStrip(campaign)
        ct == LowerStrip(content)
        t  == LowerStrip(term)
    IN  IF c # "" /\ ~NoCampaign(c)
        THEN ChannelWithCampaign(s, m)
        ELSE ChannelWithoutCampaign(s, m, c, ct, t)

-----------------------------------------------------------------------------
(* The UTM extractors *)

\* A payload column holds None, a str (<<"str", text>>) or a decoded JSON
\* value: <<"obj", moments>> for a journey object, where moments is None when
\* the key is missing, and <<"list", attrs>> for a custom-attributes array.
StrPayload(text) == <<"str", text>>

ObjPayload(moments) == <<"obj", moments>>

ListPayload(attrs) == <<"list", attrs>>

IsStr(p) == p # None /\ p[1] = "str"

\* json.loads on the texts the model feeds it: <<"ok", value>>, or <<"err">>
\* for a JSONDecodeError
JsonLoads(text) ==
    CASE text = "{}" -> <<"ok", ObjPayload(None)>>
      [] text = "{\"moments\": []}" -> <<"ok", ObjPayload(Some(<<>>))>>
      [] text = "[]" -> <<"ok", ListPayload(<<>>)>>
      [] OTHER -> <<"err">>

\* the guard both parsers and the order loop open with: None, '', blank,
\* 'null', 'None'
BlankPayload(p) ==
    \/ p = None
    \/ IsStr(p) /\ Strip(p[2]) \in {"", "null", "None"}

\* a record of the attribution data every extractor returns
AttributionRecord(src, med, camp, cont, trm, id, type) ==
    [source |-> src, medium |-> med, campaign |-> camp, content |-> cont,
     term |-> trm, attribution_id |-> id, attribution_type |-> type]

\* a mutant: an unresolved {{...}} template is taken for an ID
ValidJourneyId_TemplatesAllowed(o) ==
    Truthy(o) /\ Val(o) # "null"

\* if x and x != 'null' and not x.startswith('{{')
ValidJourneyId(o) ==
    Truthy(o) /\ Val(o) # "null" /\ ~StartsWith(Val(o), "{{")

\* a mutant: the campaign is looked at before the content
MomentRecord_CampaignFirst(moment) ==
    IF moment = None \/ moment.utmParameters = None THEN None
    ELSE LET utm == Val(moment.utmParameters) IN
         IF ValidJourneyId(utm.campaign)
         THEN Some(AttributionRecord(utm.source, utm.medium, utm.campaign, utm.content,
                                     utm.term, Val(utm.campaign), "campaign"))
         ELSE IF ValidJourneyId(utm.content)
         THEN Some(AttributionRecord(utm.source, utm.medium, utm.campaign, utm.content,
                                     utm.term, Val(utm.content), "content"))
         ELSE IF ValidJourneyId(utm.medium)
         THEN Some(AttributionRecord(utm.source, utm.medium, utm.campaign, utm.content,
                                     utm.term, Val(utm.medium), "medium"))
         ELSE None

\* the body of the loop over reversed(moments) for one moment: the record it
\* returns, or None when the loop goes on
MomentRecord(moment) ==
    IF moment = None \/ moment.utmParameters = None THEN None
    ELSE LET utm == Val(moment.utmParameters) IN
         IF ValidJourneyId(utm.content)
         THEN Some(AttributionRecord(utm.source, utm.medium, utm.campaign, utm.content,
                                     utm.term, Val(utm.content), "content"))
         ELSE IF ValidJourneyId(utm.campaign)
         THEN Some(AttributionRecord(utm.source, utm.medium, utm.campaign, utm.content,
                                     utm.term, Val(utm.campaign), "campaign"))
         ELSE IF ValidJourneyId(utm.medium)
         THEN Some(AttributionRecord(utm.source, utm.medium, utm.campaign, utm.content,
                                     utm.term, Val(utm.medium), "medium"))
         ELSE None

RECURSIVE ScanMoments(_, _)
\* for moment in reversed(moments): from index i down to 1
ScanMoments(moments, i) ==
    IF i = 0 THEN None
    ELSE IF MomentRecord(moments[i]) # None THEN MomentRecord(moments[i])
    ELSE ScanMoments(moments, i - 1)

parse_customer_journey(journey) ==
    IF BlankPayload(journey) THEN None
    ELSE LET loaded == IF IsStr(journey) THEN JsonLoads(journey[2]) ELSE <<"ok", journey>> IN
         IF loaded[1] = "err" THEN None
         ELSE LET data == loaded[2] IN
              \* not journey_data or 'moments' not in journey_data
              IF data[1] # "obj" THEN None
              ELSE IF data[2] = None THEN None
              ELSE LET moments == Val(data[2]) IN
                   IF moments = <<>> THEN None
                   ELSE ScanMoments(moments, Len(moments))

RECURSIVE CollectUtm(_, _, _)
\* the loop filling utm_data: a later entry of the same key overwrites
CollectUtm(attrs, i, utm_data) ==
    IF i > Len(attrs) THEN utm_data
    ELSE LET key == attrs[i].key
             keep == StartsWith(key, "utm_") \/ key = "fbclid" \/ key = "gclid"
         IN  CollectUtm(attrs, i + 1,
                 IF keep
                 THEN [k \in DOMAIN utm_data \cup {key} |->
                          IF k = key THEN attrs[i].value ELSE utm_data[k]]
                 ELSE utm_data)

\* utm_data.get(key)
DictGet(d, key) == IF key \in DOMAIN d THEN d[key] ELSE None

parse_custom_attributes(attributes) ==
    IF BlankPayload(attributes) \/ (IsStr(attributes) /\ Strip(attributes[2]) = "[]")
    THEN None
    ELSE LET loaded == IF IsStr(attributes) THEN JsonLoads(attributes[2])
                       ELSE <<"ok", attributes>> IN
         IF loaded[1] = "err" THEN None
         ELSE LET data == loaded[2] IN
              \* not attributes; iterating a dict yields its keys, none a dict
              IF data[1] # "list" \/ data[2] = <<>> THEN None
              ELSE LET utm_data == CollectUtm(data[2], 1, <<>>)
                       content == DictGet(utm_data, "utm_content")
                       campaign == DictGet(utm_data, "utm_campaign")
                       medium == DictGet(utm_data, "utm_medium")
                       rec(id, type) ==
                           Some(AttributionRecord(DictGet(utm_data, "utm_source"), medium,
                                campaign, content, DictGet(utm_data, "utm_term"), id, type))
                   IN  IF DOMAIN utm_data = {} THEN None
                       ELSE IF Truthy(content) THEN rec(Val(content), "content")
                       ELSE IF Truthy(campaign) THEN rec(Val(campaign), "campaign")
                       ELSE IF Truthy(medium) THEN rec(Val(medium), "medium")
                       ELSE None

\* x is not None and x != '' and str(x).strip() != ''
DirectPresent(o) == o # None /\ Val(o) # "" /\ Strip(Val(o)) # ""

\* the value get_direct_utm_data keeps of a column: None when it is left out
DirectCol(o) == IF DirectPresent(o) THEN o ELSE None

get_direct_utm_data(row) ==
    LET source == DirectCol(row.customer_utm_source)
        medium == DirectCol(row.customer_utm_medium)
        campaign == DirectCol(row.customer_utm_campaign)
        content == DirectCol(row.customer_utm_content)
        term == DirectCol(row.customer_utm_term)
        rec(id, type) ==
            Some(AttributionRecord(source, medium, campaign, content, term, id, type))
    IN  IF source = None /\ medium = None /\ campaign = None /\ content = None /\ term = None
        THEN None
        ELSE IF Truthy(content) THEN rec(Val(content), "content")
        ELSE IF Truthy(campaign) THEN rec(Val(campaign), "campaign")
        ELSE IF Truthy(medium) THEN rec(Val(medium), "medium")
        ELSE None

-----------------------------------------------------------------------------
(* Tables: ordering, sorting and sums (pandas groupby / merge / sort_values) *)

AsciiChars ==
    " !#$%&()*+,-./0123456789:;<=>?@ABCDEFGHIJKLMNOPQRSTUVWXYZ[]^_abcdefghijklmnopqrstuvwxyz{|}~"

\* the rank of a character in code point order (quotes, backslash and
\* backtick do not occur in the names and IDs compared)
CharRank(c) == CHOOSE i \in 1..Len(AsciiChars) : CharAt(AsciiChars, i) = c

\* a < b of two strs: by the first character that differs, else by length
StrLess(a, b) ==
    LET shorter == IF Len(a) < Len(b) THEN Len(a) ELSE Len(b)
        differ == {i \in 1..shorter : CharAt(a, i) # CharAt(b, i)}
    IN  IF a = b THEN FALSE
        ELSE IF differ = {} THEN Len(a) < Len(b)
        ELSE LET i == CHOOSE d \in differ : \A e \in differ : d <= e
             IN  CharRank(CharAt(a, i)) < CharRank(CharAt(b, i))

\* A sort key is a tuple of cells: <<"s", str>>, <<"n", number>>, or <<>> for
\* a null, which sorts after every value.
StrCell(s) == <<"s", s>>

NumCell(n) == <<"n", n>>

OptStrCell(o) == IF o = None THEN <<>> ELSE StrCell(Val(o))

OptNumCell(o) == IF o = None THEN <<>> ELSE NumCell(Val(o))

CellLess(a, b) ==
    IF a = b \/ a = <<>> THEN FALSE
    ELSE IF b = <<>> THEN TRUE
    ELSE IF a[1] = "n" THEN a[2] < b[2]
    ELSE StrLess(a[2], b[2])

RECURSIVE KeyLess(_, _)
\* lexicographic order of two key tuples of equal length
KeyLess(a, b) ==
    IF a = <<>> THEN FALSE
    ELSE IF a[1] # b[1] THEN CellLess(a[1], b[1])
    ELSE KeyLess(Tail(a), Tail(b))

RECURSIVE InsertSorted(_, _)
\* x placed after every element whose key is not greater
InsertSorted(sorted, x) ==
    IF sorted = <<>> THEN <<x>>
    ELSE IF KeyLess(x.key, sorted[1].key) THEN <<x>> \o sorted
    ELSE <<sorted[1]>> \o InsertSorted(Tail(sorted), x)

RECURSIVE SortByKey(_)
\* a stable sort of [key, row] pairs by key
SortByKey(pairs) ==
    IF pairs = <<>> THEN <<>>
    ELSE InsertSorted(SortByKey(SubSeq(pairs, 1, Len(pairs) - 1)), pairs[Len(pairs)])

RECURSIVE SortSet(_)
\* a set of [key, row] pairs with distinct keys, in key order
SortSet(S) ==
    IF S = {} THEN <<>>
    ELSE LET m == CHOOSE x \in S : \A y \in S \ {x} : ~KeyLess(y.key, x.key)
         IN  <<m>> \o SortSet(S \ {m})

RowsOf(pairs) == [i \in DOMAIN pairs |-> pairs[i].row]

RECURSIVE SumSeq(_)
SumSeq(ns) == IF ns = <<>> THEN 0 ELSE ns[1] + SumSeq(Tail(ns))

\* the sort cell of an identifier: ints by value, strs by code point
IdCell(id) == IF id[1] = "int" THEN NumCell(id[2]) ELSE StrCell(id[2])

-----------------------------------------------------------------------------
(* rollup_ads_to_daily *)

DailyKey(ad) ==
    <<ad.date_start, ad.campaign_id, ad.campaign_name, ad.adset_id, ad.adset_name,
      ad.ad_id, ad.ad_name>>

DailySortKey(k) ==
    <<OptNumCell(k[1]), IdCell(k[2]), OptStrCell(k[3]), IdCell(k[4]), OptStrCell(k[5]),
      IdCell(k[6]), OptStrCell(k[7])>>

\* groupby drops the rows with a null key column
DailyKeyed(ad) == \A i \in 1..7 : DailyKey(ad)[i] # None

RECURSIVE GCD(_, _)
GCD(a, b) == IF b = 0 THEN a ELSE GCD(b, a % b)

\* The quotient n / d of two non-negative numbers, as a fraction in lowest
\* terms. A zero denominator gives the float inf (num = 1) or NaN (num = 0),
\* written with den = 0.
Fraction(n, d) ==
    IF d = 0 THEN [num |-> IF n = 0 THEN 0 ELSE 1, den |-> 0]
    ELSE [num |-> n \div GCD(n, d), den |-> d \div GCD(n, d)]

\* a mutant: the quotient is taken whatever the denominator is
DailyMetric_Unguarded(numerator, denominator, scale) ==
    Fraction(numerator * scale, denominator)

\* np.where(denominator > 0, numerator / denominator * scale, 0)
DailyMetric(numerator, denominator, scale) ==
    IF denominator > 0 THEN Fraction(numerator * scale, denominator) ELSE Fraction(0, 1)

\* the three derived columns of a daily row (lines 476-481)
WithDailyMetrics(row) ==
    row @@ [cpm |-> DailyMetric(row.spend, row.impressions, 1000),
            cpc |-> DailyMetric(row.spend, row.clicks, 1),
            ctr |-> DailyMetric(row.clicks, row.impressions, 100)]

\* one row per (date, campaign, adset, ad), the metrics summed, in key order
rollup_ads_to_daily(ads) ==
    LET rows == SelectSeq(ads, DailyKeyed)
        keys == {DailyKey(rows[i]) : i \in DOMAIN rows}
        group(k) == SelectSeq(rows, LAMBDA ad : DailyKey(ad) = k)
        total(k, f(_)) == SumSeq([i \in DOMAIN group(k) |-> f(group(k)[i])])
        daily(k) ==
            [date_start |-> k[1], campaign_id |-> k[2], campaign_name |-> k[3],
             adset_id |-> k[4], adset_name |-> k[5], ad_id |-> k[6], ad_name |-> k[7],
             impressions |-> total(k, LAMBDA ad : ad.impressions),
             clicks |-> total(k, LAMBDA ad : ad.clicks),
             spend |-> total(k, LAMBDA ad : ad.spend),
             action_onsite_web_purchase |-> total(k, LAMBDA ad : ad.action_onsite_web_purchase),
             value_onsite_web_purchase |-> total(k, LAMBDA ad : ad.value_onsite_web_purchase)]
    IN  RowsOf(SortSet({[key |-> DailySortKey(k), row |-> WithDailyMetrics(daily(k))]
                        : k \in keys}))

-----------------------------------------------------------------------------
(* map_attribution_to_campaign *)

\* a mutant: Direct gets an 'Unknown Campaign' entry too
TrackedChannels_WithDirect == {"Meta", "Google", "Organic", "Direct"}

TrackedChannels == {"Meta", "Google", "Organic"}

\* the 'Unknown Campaign' entry of a channel
UnknownCampaign(channel) ==
    [campaign_id |-> None, campaign_name |-> Some("Unknown Campaign - " \o channel),
     adset_id |-> None, adset_name |-> Some("Unknown Adset - " \o channel),
     ad_id |-> None, ad_name |-> Some("Unknown Ad - " \o channel),
     impressions |-> 0, clicks |-> 0, spend |-> 0, ad_purchases |-> 0, ad_revenue |-> 0]

\* (col.astype(str) == attribution_id_str) | (col == attribution_id)
IdMatches(id, attribution_id) ==
    IdToStr(id) = attribution_id \/ id = StrId(attribution_id)

\* a mutant: the ID is looked for in all three ID columns
MatchingAds_AnyDimension(attribution_id, attribution_type, daily_ads) ==
    SelectSeq(daily_ads, LAMBDA ad : \/ IdMatches(ad.ad_id, attribution_id)
                                     \/ IdMatches(ad.campaign_id, attribution_id)
                                     \/ IdMatches(ad.adset_id, attribution_id))

\* the daily rows whose column of the attribution type carries the ID
MatchingAds(attribution_id, attribution_type, daily_ads) ==
    IF attribution_type = "content"
    THEN SelectSeq(daily_ads, LAMBDA ad : IdMatches(ad.ad_id, attribution_id))
    ELSE IF attribution_type = "campaign"
    THEN SelectSeq(daily_ads, LAMBDA ad : IdMatches(ad.campaign_id, attribution_id))
    ELSE IF attribution_type = "medium"
    THEN SelectSeq(daily_ads, LAMBDA ad : IdMatches(ad.adset_id, attribution_id))
    ELSE <<>>

\* channel is None or a str; None and '' are falsy
map_attribution_to_campaign(attribution_data, daily_ads, channel) ==
    LET unknown == IF Truthy(channel) /\ Val(channel) \in TrackedChannels
                   THEN Some(UnknownCampaign(Val(channel))) ELSE None
    IN  IF attribution_data = None THEN unknown
        ELSE LET rec == Val(attribution_data)
                 matches == MatchingAds(rec.attribution_id, rec.attribution_type, daily_ads)
             IN  IF matches = <<>> THEN unknown
                 ELSE LET match == matches[1] IN
                      Some([campaign_id |-> match.campaign_id,
                            campaign_name |-> match.campaign_name,
                            adset_id |-> match.adset_id, adset_name |-> match.adset_name,
                            ad_id |-> match.ad_id, ad_name |-> match.ad_name,
                            impressions |-> match.impressions, clicks |-> match.clicks,
                            spend |-> match.spend,
                            ad_purchases |-> match.action_onsite_web_purchase,
                            ad_revenue |-> match.value_onsite_web_purchase])

-----------------------------------------------------------------------------
(* infer_channel_from_order_patterns *)

\* repr() of an optional str
OptRepr(o) == IF o = None THEN "None" ELSE "'" \o Val(o) \o "'"

\* repr() of a decoded moment
MomentRepr(moment) ==
    IF moment = None THEN "None"
    ELSE IF moment.utmParameters = None THEN "{'utmParameters': None}"
    ELSE LET utm == Val(moment.utmParameters) IN
         "{'utmParameters': {'source': " \o OptRepr(utm.source)
            \o ", 'medium': " \o OptRepr(utm.medium)
            \o ", 'campaign': " \o OptRepr(utm.campaign)
            \o ", 'content': " \o OptRepr(utm.content)
            \o ", 'term': " \o OptRepr(utm.term) \o "}}"

AttrRepr(attr) == "{'key': '" \o attr.key \o "', 'value': " \o OptRepr(attr.value) \o "}"

RECURSIVE JoinTexts(_, _)
\* sep.join(texts)
JoinTexts(texts, sep) ==
    IF texts = <<>> THEN ""
    ELSE IF Len(texts) = 1 THEN texts[1]
    ELSE texts[1] \o sep \o JoinTexts(Tail(texts), sep)

\* str() of a payload column that is not None
PayloadStr(p) ==
    IF p[1] = "str" THEN p[2]
    ELSE IF p[1] = "obj"
    THEN IF p[2] = None THEN "{}"
         ELSE "{'moments': ["
                \o JoinTexts([i \in DOMAIN Val(p[2]) |-> MomentRepr(Val(p[2])[i])], ", ")
                \o "]}"
    ELSE "[" \o JoinTexts([i \in DOMAIN p[2] |-> AttrRepr(p[2][i])], ", ") \o "]"

\* a decoded payload is truthy unless it is an empty container
PayloadTruthy(p) ==
    /\ p # None
    /\ IF p[1] = "str" THEN p[2] # ""
       ELSE IF p[1] = "obj" THEN p[2] # None
       ELSE p[2] # <<>>

referrer_search_engines == {"google.com", "bing.com", "yahoo.com", "duckduckgo.com"}

social_platforms == {"facebook.com", "instagram.com", "twitter.com", "linkedin.com"}

referrer_domains == {".com", ".co.", ".org", ".net"}

pattern_organic_indicators == {"search", "organic", "seo", "unpaid", "natural", "shopify"}

social_indicators == {"social", "facebook", "instagram", "fb", "ig", "igshopping"}

\* the channel a referrer names, or None when the next check is to run
ReferrerChannel(referrer_url) ==
    IF Truthy(referrer_url) /\ Strip(Val(referrer_url)) \notin {"", "null", "None"}
    THEN LET referrer_lower == Lower(Val(referrer_url)) IN
         IF AnyIn(referrer_search_engines, referrer_lower) THEN Some("Organic")
         ELSE IF AnyIn(social_platforms, referrer_lower) THEN Some("Meta")
         ELSE IF Contains(referrer_lower, "shopify.com") THEN Some("Organic")
         ELSE IF AnyIn(referrer_domains, referrer_lower) THEN Some("Organic")
         ELSE None
    ELSE None

\* the channel the text of a payload names, or None
PatternChannel(p, blanks) ==
    IF PayloadTruthy(p) /\ Strip(PayloadStr(p)) \notin blanks
    THEN LET text_lower == Lower(PayloadStr(p)) IN
         IF AnyIn(pattern_organic_indicators, text_lower) THEN Some("Organic")
         ELSE IF AnyIn(social_indicators, text_lower) THEN Some("Meta")
         ELSE None
    ELSE None

infer_channel_from_order_patterns(order) ==
    LET by_referrer == ReferrerChannel(order.customer_referrer_url)
        by_journey == PatternChannel(order.customer_journey, {"", "null", "None"})
        by_attrs == PatternChannel(order.custom_attributes, {"", "null", "None", "[]"})
    IN  IF by_referrer # None THEN Val(by_referrer)
        ELSE IF by_journey # None THEN Val(by_journey)
        ELSE IF by_attrs # None THEN Val(by_attrs)
        ELSE "Direct"

-----------------------------------------------------------------------------
(* process_attribution: the body of the loop over the orders *)

\* An order of orders_df: the order-level columns, which every line-item row
\* of the order repeats, and its line items in row order.

\* the test the loop makes before it calls a parser
WorthParsing(p, blanks) ==
    /\ p # None
    /\ ~(IsStr(p) /\ p[2] = "")
    /\ Strip(PayloadStr(p)) \notin blanks

\* a mutant: the custom attributes are tried before the journey
ExtractAttribution_AttributesFirst(order) ==
    LET from_journey == parse_customer_journey(order.customer_journey)
        from_attrs == parse_custom_attributes(order.custom_attributes)
        from_direct == get_direct_utm_data(order)
    IN  IF from_attrs # None
        THEN [data |-> from_attrs, source |-> Some("custom_attributes"),
              calls |-> <<"parse_custom_attributes">>]
        ELSE IF from_journey # None
        THEN [data |-> from_journey, source |-> Some("customer_journey"),
              calls |-> <<"parse_custom_attributes", "parse_customer_journey">>]
        ELSE [data |-> from_direct,
              source |-> IF from_direct # None THEN Some("direct_utm") ELSE None,
              calls |-> <<"parse_custom_attributes", "parse_customer_journey",
                          "get_direct_utm_data">>]

\* steps 1 to 3: the attribution data, its source, and the extractors called
ExtractAttribution(order) ==
    LET try_journey == WorthParsing(order.customer_journey, {"", "null", "None"})
        from_journey == IF try_journey THEN parse_customer_journey(order.customer_journey)
                        ELSE None
        try_attrs == WorthParsing(order.custom_attributes, {"", "null", "[]", "None"})
        from_attrs == IF try_attrs THEN parse_custom_attributes(order.custom_attributes)
                      ELSE None
        from_direct == get_direct_utm_data(order)
        journey_call == IF try_journey THEN <<"parse_customer_journey">> ELSE <<>>
        attrs_call == IF try_attrs THEN <<"parse_custom_attributes">> ELSE <<>>
    IN  IF from_journey # None
        THEN [data |-> from_journey, source |-> Some("customer_journey"),
              calls |-> journey_call]
        ELSE IF from_attrs # None
        THEN [data |-> from_attrs, source |-> Some("custom_attributes"),
              calls |-> journey_call \o attrs_call]
        ELSE [data |-> from_direct,
              source |-> IF from_direct # None THEN Some("direct_utm") ELSE None,
              calls |-> journey_call \o attrs_call \o <<"get_direct_utm_data">>]

\* attribution_data.get(field) if attribution_data else None
DataGet(data, field) == IF data = None THEN None ELSE Val(data)[field]

\* the channel and the campaign data of an order (lines 890-926)
ChannelAndCampaign(order, data, daily_ads) ==
    LET channel == determine_channel(DataGet(data, "source"), DataGet(data, "medium"),
                                     DataGet(data, "campaign"), DataGet(data, "content"),
                                     DataGet(data, "term"))
    IN  IF data # None
        THEN [channel |-> channel,
              campaign_data |-> map_attribution_to_campaign(data, daily_ads, Some(channel))]
        ELSE IF channel # "" /\ channel \in {"Meta", "Google", "Organic", "Direct"}
        THEN LET final == IF channel = "Meta" THEN "Organic" ELSE channel IN
             [channel |-> final,
              campaign_data |-> map_attribution_to_campaign(None, daily_ads, Some(final))]
        ELSE LET inferred == infer_channel_from_order_patterns(order) IN
             [channel |-> inferred,
              campaign_data |-> map_attribution_to_campaign(None, daily_ads, Some(inferred))]

\* the truthy SKUs of the line items, in row order
SkusInOrder(order) ==
    LET kept == SelectSeq(order.line_items, LAMBDA item : Truthy(item.sku))
    IN  [i \in DOMAIN kept |-> Val(kept[i].sku)]

RECURSIVE Orderings(_)
\* every order a set can be iterated in
Orderings(S) ==
    IF S = {} THEN {<<>>}
    ELSE UNION {{<<x>> \o rest : rest \in Orderings(S \ {x})} : x \in S}

\* ', '.join(set(skus_in_order)): the iteration order of a set of str is not
\* fixed, so every order is a possible value
SkuTexts(order) ==
    LET skus == SkusInOrder(order)
        distinct == {skus[i] : i \in DOMAIN skus}
    IN  IF skus = <<>> THEN {None}
        ELSE {Some(JoinTexts(ordering, ", ")) : ordering \in Orderings(distinct)}

CampaignGet(campaign_data, field) ==
    IF campaign_data = None THEN None ELSE Val(campaign_data)[field]

\* a payload column holding text that json.loads cannot decode
Undecodable(p) == p # None /\ IsStr(p) /\ ~BlankPayload(p) /\ JsonLoads(p[2])[1] = "err"

\* a mutant: a decoding error in a parser reaches the loop's handler
OrderRaises_OnParseFailure(order) ==
    \/ order.total_price_amount = None
    \/ Undecodable(order.customer_journey)
    \/ Undecodable(order.custom_attributes)

\* float(order['total_price_amount']) raises on None
OrderRaises(order) == order.total_price_amount = None

\* the result record of an order; the shipping columns and investigation flags
\* are copied through and left out here
OrderResult(order, skus, daily_ads) ==
    LET extracted == ExtractAttribution(order)
        data == extracted.data
        mapped == ChannelAndCampaign(order, data, daily_ads)
        items == order.line_items
        distinct == {SkusInOrder(order)[i] : i \in DOMAIN SkusInOrder(order)}
        sold == SelectSeq(items, LAMBDA item : Truthy(item.sku))
    IN  [order_id |-> order.order_id,
         order_name |-> order.order_name,
         order_date |-> order.created_at_ist,
         order_value |-> Val(order.total_price_amount),
         total_cogs |-> SumSeq([i \in DOMAIN items |->
                                    items[i].quantity * items[i].unit_cost_amount]),
         line_items_count |-> Len(items),
         skus |-> skus,
         unique_skus_count |-> Cardinality(distinct),
         total_sku_quantity |-> SumSeq([i \in DOMAIN sold |-> sold[i].quantity]),
         channel |-> mapped.channel,
         attribution_source |-> extracted.source,
         attribution_id |-> IF data = None THEN None ELSE Some(Val(data).attribution_id),
         attribution_type |-> IF data = None THEN None ELSE Some(Val(data).attribution_type),
         utm_source |-> DataGet(data, "source"),
         utm_medium |-> DataGet(data, "medium"),
         utm_campaign |-> DataGet(data, "campaign"),
         utm_content |-> DataGet(data, "content"),
         utm_term |-> DataGet(data, "term"),
         campaign_id |-> CampaignGet(mapped.campaign_data, "campaign_id"),
         campaign_name |-> CampaignGet(mapped.campaign_data, "campaign_name"),
         adset_id |-> CampaignGet(mapped.campaign_data, "adset_id"),
         adset_name |-> CampaignGet(mapped.campaign_data, "adset_name"),
         ad_id |-> CampaignGet(mapped.campaign_data, "ad_id"),
         ad_name |-> CampaignGet(mapped.campaign_data, "ad_name")]

-----------------------------------------------------------------------------
(* process_attribution: the summary columns and the two reclassifications *)

\* col.notna() & (col.astype(str) != '')
NotBlank(o) == o # None /\ Val(o) # ""

\* col.notna() & (col.astype(str) != '') & (col.astype(str) != 'null')
NotBlankOrNull(o) == NotBlank(o) /\ Val(o) # "null"

\* a mutant: the campaign mask alone decides the first reclassification
direct_with_campaign_mask_CampaignOnly(row) ==
    row.channel = "Direct" /\ NotBlankOrNull(row.utm_campaign)

\* a mutant: an attribution source alone is no evidence of a campaign
direct_with_campaign_mask_SourceIgnored(row) ==
    /\ row.channel = "Direct"
    /\ \/ NotBlankOrNull(row.utm_campaign)
       \/ NotBlank(row.campaign_name) /\ ~Contains(Val(row.campaign_name), "Unknown")

\* a mutant: the first reclassification looks at the Organic rows
direct_with_campaign_mask_OrganicRows(row) ==
    /\ row.channel = "Organic"
    /\ \/ NotBlankOrNull(row.utm_campaign)
       \/ NotBlank(row.attribution_source)
       \/ NotBlank(row.campaign_name) /\ ~Contains(Val(row.campaign_name), "Unknown")

direct_with_campaign_mask(row) ==
    /\ row.channel = "Direct"
    /\ \/ NotBlankOrNull(row.utm_campaign)
       \/ NotBlank(row.attribution_source)
       \/ NotBlank(row.campaign_name) /\ ~Contains(Val(row.campaign_name), "Unknown")

direct_with_source_mask(row) ==
    /\ row.channel = "Direct"
    /\ NotBlankOrNull(row.utm_source) \/ NotBlankOrNull(row.utm_medium)

\* a mutant: the first pass leaves is_paid_channel as it was computed
PostProcessRow_StaleFlag(result) ==
    LET flagged == result @@
            [is_attributed |-> result.attribution_source # None,
             is_paid_channel |-> result.channel \in {"Meta", "Google"}]
        pass1 == IF direct_with_campaign_mask(flagged)
                 THEN [flagged EXCEPT !.channel = "Meta"]
                 ELSE flagged
    IN  IF direct_with_source_mask(pass1)
        THEN [pass1 EXCEPT !.channel = "Organic"]
        ELSE pass1

\* lines 1046-1085 on one row
PostProcessRow(result) ==
    LET flagged == result @@
            [is_attributed |-> result.attribution_source # None,
             is_paid_channel |-> result.channel \in {"Meta", "Google"}]
        pass1 == IF direct_with_campaign_mask(flagged)
                 THEN [flagged EXCEPT !.channel = "Meta", !.is_paid_channel = TRUE]
                 ELSE flagged
    IN  IF direct_with_source_mask(pass1)
        THEN [pass1 EXCEPT !.channel = "Organic"]
        ELSE pass1

\* the columns of the result dict that the rows here leave out (lines
\* 969-972, 1005-1006)
CopiedColumns ==
    {"order_currency", "ship_city", "ship_province", "ship_country",
     "has_customer_journey", "has_custom_attributes"}

\* pd.DataFrame(columns=[...]) of lines 1032-1040
EmptyResultColumns ==
    {"order_id", "order_name", "order_date", "order_value", "order_currency",
     "ship_city", "ship_province", "ship_country", "total_cogs", "line_items_count",
     "skus", "unique_skus_count", "total_sku_quantity", "channel", "attribution_source",
     "attribution_id", "attribution_type", "utm_source", "utm_medium", "utm_campaign",
     "utm_content", "utm_term", "campaign_id", "campaign_name", "adset_id", "adset_name",
     "ad_id", "ad_name", "has_customer_journey", "has_custom_attributes", "is_attributed",
     "is_paid_channel"}

\* the columns of the table process_attribution returns (lines 1029-1047)
ResultColumns(rows) ==
    IF rows = <<>> THEN EmptyResultColumns
    ELSE DOMAIN rows[1] \cup CopiedColumns \cup {"is_attributed", "is_paid_channel"}

-----------------------------------------------------------------------------
(* create_granular_insights *)

\* the eight join columns of a prepared ad row, an order aggregate or a
\* granular row
GranularKey(r) ==
    <<r.campaign_id, r.campaign_name, r.adset_id, r.adset_name, r.ad_id, r.ad_name,
      r.date_only, r.hour_label>>

GranularSortKey(k) ==
    <<StrCell(k[1]), OptStrCell(k[2]), StrCell(k[3]), OptStrCell(k[4]), StrCell(k[5]),
      OptStrCell(k[6]), OptNumCell(k[7]), OptStrCell(k[8])>>

\* lines 2121-2130 and the column subset of 2208-2212 on one ad row
HourlyAd(ad) ==
    [campaign_id |-> _fix_id(ad.campaign_id), campaign_name |-> ad.campaign_name,
     adset_id |-> _fix_id(ad.adset_id), adset_name |-> ad.adset_name,
     ad_id |-> _fix_id(ad.ad_id), ad_name |-> ad.ad_name,
     date_only |-> ad.date_start,
     hour_label |-> _normalize_hourly_window(ad.hourly_window),
     spend |-> ad.spend, cpm |-> ad.cpm, cpc |-> ad.cpc, ctr |-> ad.ctr,
     action_onsite_web_purchase |-> ad.action_onsite_web_purchase,
     value_onsite_web_purchase |-> ad.value_onsite_web_purchase]

\* only the rows with an hour label are kept
hourly_ads_subset(ads) ==
    SelectSeq([i \in DOMAIN ads |-> HourlyAd(ads[i])], LAMBDA ad : ad.hour_label # None)

\* col.fillna('')
FillBlank(o) == IF o = None THEN Some("") ELSE o

\* lines 2136-2162 on one result row: the key columns of an order
PreparedOrder(row) ==
    [campaign_id |-> _fix_id(row.campaign_id), campaign_name |-> FillBlank(row.campaign_name),
     adset_id |-> _fix_id(row.adset_id), adset_name |-> FillBlank(row.adset_name),
     ad_id |-> _fix_id(row.ad_id), ad_name |-> FillBlank(row.ad_name),
     date_only |-> IF row.order_date = None THEN None ELSE <<Val(row.order_date).date>>,
     hour_label |-> _format_hour_window(row.order_date),
     order |-> row]

RECURSIVE _first_nonnull(_)
\* next((x for x in series if pd.notna(x) and x != ''), None)
_first_nonnull(series) ==
    IF series = <<>> THEN None
    ELSE IF NotBlank(series[1]) THEN series[1]
    ELSE _first_nonnull(Tail(series))

\* ', '.join(sorted(map(str, set(order ids))))
JoinOrderIds(ids) ==
    JoinTexts(RowsOf(SortSet({[key |-> <<StrCell(IntToStr(id))>>, row |-> IntToStr(id)]
                                 : id \in ids})), ", ")

\* lines 2168-2197: one aggregate per exact key, in key order
orders_by_key(results_rows) ==
    LET prepared == [i \in DOMAIN results_rows |-> PreparedOrder(results_rows[i])]
        keys == {GranularKey(prepared[i]) : i \in DOMAIN prepared}
        group(k) == SelectSeq(prepared, LAMBDA o : GranularKey(o) = k)
        column(k, f(_)) == [i \in DOMAIN group(k) |-> f(group(k)[i].order)]
        aggregate(k) ==
            [campaign_id |-> k[1], campaign_name |-> k[2], adset_id |-> k[3],
             adset_name |-> k[4], ad_id |-> k[5], ad_name |-> k[6],
             date_only |-> k[7], hour_label |-> k[8],
             shopify_orders |->
                 Cardinality({group(k)[i].order.order_id : i \in DOMAIN group(k)}),
             shopify_revenue |-> SumSeq(column(k, LAMBDA o : o.order_value)),
             shopify_cogs |-> SumSeq(column(k, LAMBDA o : o.total_cogs)),
             total_sku_quantity |-> SumSeq(column(k, LAMBDA o : o.total_sku_quantity)),
             channel |-> _first_nonnull(column(k, LAMBDA o : Some(o.channel))),
             attribution_source |-> _first_nonnull(column(k, LAMBDA o : o.attribution_source)),
             utm_source |-> _first_nonnull(column(k, LAMBDA o : o.utm_source)),
             utm_medium |-> _first_nonnull(column(k, LAMBDA o : o.utm_medium)),
             utm_campaign |-> _first_nonnull(column(k, LAMBDA o : o.utm_campaign)),
             utm_content |-> _first_nonnull(column(k, LAMBDA o : o.utm_content)),
             utm_term |-> _first_nonnull(column(k, LAMBDA o : o.utm_term)),
             order_ids |->
                 JoinOrderIds({group(k)[i].order.order_id : i \in DOMAIN group(k)})]
    IN  RowsOf(SortSet({[key |-> GranularSortKey(k), row |-> aggregate(k)] : k \in keys}))

\* col.fillna('') of an aggregated text column
Filled(o) == IF o = None THEN "" ELSE Val(o)

\* a row of the outer merge with the defaults of lines 2229-2246 filled in;
\* ad is None for a 'right_only' row, agg is None for a 'left_only' row
MergedRow(ad, agg) ==
    LET key == IF ad # None THEN Val(ad) ELSE Val(agg)
        text(f(_)) == IF agg = None THEN "" ELSE Filled(f(Val(agg)))
        number(f(_)) == IF agg = None THEN 0 ELSE f(Val(agg))
        metric(f(_)) == IF ad = None THEN None ELSE Some(f(Val(ad)))
    IN  [campaign_id |-> key.campaign_id, campaign_name |-> key.campaign_name,
         adset_id |-> key.adset_id, adset_name |-> key.adset_name,
         ad_id |-> key.ad_id, ad_name |-> key.ad_name,
         date_only |-> key.date_only, hour_label |-> key.hour_label,
         spend |-> metric(LAMBDA a : a.spend), cpm |-> metric(LAMBDA a : a.cpm),
         cpc |-> metric(LAMBDA a : a.cpc), ctr |-> metric(LAMBDA a : a.ctr),
         action_onsite_web_purchase |-> metric(LAMBDA a : a.action_onsite_web_purchase),
         value_onsite_web_purchase |-> metric(LAMBDA a : a.value_onsite_web_purchase),
         shopify_orders |-> number(LAMBDA g : g.shopify_orders),
         shopify_revenue |-> number(LAMBDA g : g.shopify_revenue),
         shopify_cogs |-> number(LAMBDA g : g.shopify_cogs),
         total_sku_quantity |-> number(LAMBDA g : g.total_sku_quantity),
         channel |-> text(LAMBDA g : g.channel),
         attribution_source |-> text(LAMBDA g : g.attribution_source),
         utm_source |-> text(LAMBDA g : g.utm_source),
         utm_medium |-> text(LAMBDA g : g.utm_medium),
         utm_campaign |-> text(LAMBDA g : g.utm_campaign),
         utm_content |-> text(LAMBDA g : g.utm_content),
         utm_term |-> text(LAMBDA g : g.utm_term),
         order_ids |-> IF agg = None THEN "" ELSE Val(agg).order_ids,
         _merge |-> IF ad = None THEN "right_only"
                    ELSE IF agg = None THEN "left_only" ELSE "both"]

\* lines 2216-2246: every ad row with the aggregate of its key, then the
\* aggregates no ad row has the key of; the keys in lexicographic order
OuterMerge(ads, aggs) ==
    LET match(ad) == SelectSeq(aggs, LAMBDA g : GranularKey(g) = GranularKey(ad))
        from_ads == [i \in DOMAIN ads |->
                        MergedRow(Some(ads[i]),
                                  IF match(ads[i]) = <<>> THEN None
                                  ELSE Some(match(ads[i])[1]))]
        unmatched == SelectSeq(aggs, LAMBDA g :
                        \A i \in DOMAIN ads : GranularKey(ads[i]) # GranularKey(g))
        from_orders == [i \in DOMAIN unmatched |-> MergedRow(None, Some(unmatched[i]))]
        rows == from_ads \o from_orders
    IN  RowsOf(SortByKey([i \in DOMAIN rows |->
                    [key |-> GranularSortKey(GranularKey(rows[i])), row |-> rows[i]]]))

\* lines 2254-2272
enhance_channel_detection(row) ==
    LET enhanced_channel == determine_channel(Some(row.utm_source), Some(row.utm_medium),
                                Some(row.utm_campaign), Some(row.utm_content),
                                Some(row.utm_term))
    IN  IF enhanced_channel # "Direct/Unknown" /\ enhanced_channel # "Direct"
        THEN enhanced_channel
        ELSE row.channel

\* a mutant: the mask without the test of the channel
granular_direct_with_campaign_mask_AnyChannel(row) ==
    \/ row.utm_campaign # "" /\ row.utm_campaign # "null"
    \/ row.attribution_source # ""
    \/ NotBlank(row.campaign_name) /\ ~Contains(Val(row.campaign_name), "Unknown")

\* the mask of lines 2279-2290
granular_direct_with_campaign_mask(row) ==
    /\ row.channel = "Direct"
    /\ \/ row.utm_campaign # "" /\ row.utm_campaign # "null"
       \/ row.attribution_source # ""
       \/ NotBlank(row.campaign_name) /\ ~Contains(Val(row.campaign_name), "Unknown")

\* lines 2293-2299 on one row
ReclassifyToMeta(row) ==
    IF granular_direct_with_campaign_mask(row)
    THEN [row EXCEPT !.channel = "Meta",
                     !.campaign_name =
                         IF row.utm_campaign # "" /\ row.utm_campaign # "null"
                         THEN Some("Meta Campaign - " \o row.utm_campaign)
                         ELSE Some("Meta Campaign - Unknown")]
    ELSE row

\* lines 2301-2323 on one row: the names built at 2321 are discarded
ReclassifyToOrganic(row) ==
    IF /\ row.channel = "Direct"
       /\ \/ row.utm_source # "" /\ row.utm_source # "null"
          \/ row.utm_medium # "" /\ row.utm_medium # "null"
    THEN [row EXCEPT !.channel = "Organic"]
    ELSE row

\* lines 2330-2347 on one row
CleanUnmatched(row) ==
    IF row._merge = "right_only"
    THEN LET ch == IF row.channel # "" THEN row.channel ELSE "Direct/Unknown" IN
         [row EXCEPT !.campaign_name = Some("Unknown Campaign - " \o ch),
                     !.adset_name = Some("Unknown Adset - " \o ch),
                     !.ad_name = Some("Unknown Ad - " \o ch),
                     !.spend = Some(0), !.cpm = Some(0), !.cpc = Some(0), !.ctr = Some(0),
                     !.action_onsite_web_purchase = Some(0),
                     !.value_onsite_web_purchase = Some(0)]
    ELSE row

\* the columns of a granular row but '_merge', with the date_start and
\* hourly_window aliases of lines 2353-2360
Aliased(row) ==
    [f \in (DOMAIN row \ {"_merge"}) \cup {"date_start", "hourly_window"} |->
        IF f = "date_start" THEN row.date_only
        ELSE IF f = "hourly_window" THEN row.hour_label
        ELSE row[f]]

\* line 2272: the channel of every row replaced
ClassifyRows(rows) ==
    [i \in DOMAIN rows |-> [rows[i] EXCEPT !.channel = enhance_channel_detection(rows[i])]]

\* lines 2274-2323 on every row
ReclassifyRows(rows) ==
    [i \in DOMAIN rows |-> ReclassifyToOrganic(ReclassifyToMeta(rows[i]))]

\* lines 2325-2360 on every row
CleanRows(rows) == [i \in DOMAIN rows |-> Aliased(CleanUnmatched(rows[i]))]

\* the granular table up to the reclassification to Meta (lines 2121-2272)
GranularClassified(results_rows, ads) ==
    ClassifyRows(OuterMerge(hourly_ads_subset(ads), orders_by_key(results_rows)))

\* the granular table after the two reclassifications (lines 2274-2323)
GranularReclassified(results_rows, ads) ==
    ReclassifyRows(GranularClassified(results_rows, ads))

\* the granular table before the de-dupe guard (lines 2325-2360)
GranularCleaned(results_rows, ads) == CleanRows(GranularReclassified(results_rows, ads))

\* key_cols of the de-dupe guard
DedupeKey(r) ==
    <<r.campaign_id, r.campaign_name, r.adset_id, r.adset_name, r.ad_id, r.ad_name,
      r.date_start, r.hour_label>>

\* granular.duplicated(key_cols).any()
HasDuplicates(rows) ==
    \E i, j \in DOMAIN rows : i < j /\ DedupeKey(rows[i]) = DedupeKey(rows[j])

\* a mutant: the guard finds no duplicates
CollapseDuplicates_Never(rows) == rows

\* lines 2362-2378: one row per key when a key repeats; sums of the numeric
\* columns, the first value of the text columns, every other column dropped
CollapseDuplicates(rows) ==
    IF ~HasDuplicates(rows) THEN rows
    ELSE LET keys == {DedupeKey(rows[i]) : i \in DOMAIN rows}
             group(k) == SelectSeq(rows, LAMBDA r : DedupeKey(r) = k)
             total(k, f(_)) == SumSeq([i \in DOMAIN group(k) |-> f(group(k)[i])])
             first(k) == group(k)[1]
             collapsed(k) ==
                 [campaign_id |-> k[1], campaign_name |-> k[2], adset_id |-> k[3],
                  adset_name |-> k[4], ad_id |-> k[5], ad_name |-> k[6],
                  date_start |-> k[7], hour_label |-> k[8],
                  spend |-> Some(total(k, LAMBDA r : Val(r.spend))),
                  shopify_orders |-> total(k, LAMBDA r : r.shopify_orders),
                  shopify_revenue |-> total(k, LAMBDA r : r.shopify_revenue),
                  shopify_cogs |-> total(k, LAMBDA r : r.shopify_cogs),
                  total_sku_quantity |-> total(k, LAMBDA r : r.total_sku_quantity),
                  channel |-> first(k).channel,
                  attribution_source |-> first(k).attribution_source,
                  utm_source |-> first(k).utm_source, utm_medium |-> first(k).utm_medium,
                  utm_campaign |-> first(k).utm_campaign,
                  utm_content |-> first(k).utm_content, utm_term |-> first(k).utm_term,
                  order_ids |-> first(k).order_ids, date_only |-> first(k).date_only]
         IN  RowsOf(SortSet({[key |-> GranularSortKey(k), row |-> collapsed(k)] : k \in keys}))

\* line 2381: by date, then hour, then revenue descending
SortGranular(rows) ==
    RowsOf(SortByKey([i \in DOMAIN rows |->
        [key |-> <<OptNumCell(rows[i].date_start), OptStrCell(rows[i].hour_label),
                   NumCell(0 - rows[i].shopify_revenue)>>,
         row |-> rows[i]]]))

create_granular_insights(results_rows, ads) ==
    IF results_rows = <<>> \/ ads = <<>> THEN <<>>
    ELSE SortGranular(CollapseDuplicates(GranularCleaned(results_rows, ads)))

\* the columns of the table create_granular_insights returns: the early
\* return of line 2118 is pd.DataFrame(), a table without columns
GranularColumns(table) == IF table = <<>> THEN {} ELSE DOMAIN table[1]

-----------------------------------------------------------------------------
(* The classifier on its own: every combination of the argument domains *)

SourceArgs ==
    {None, Some(""), Some("null"), Some("none"), Some("google"), Some(" Google "),
     Some("facebook"), Some("fb"), Some("bing"), Some("direct"), Some("x"),
     Some("newsletter"), Some("googleadservices.com"), Some("{{site_source_name}}"),
     Some("shop.example.com"), Some("manual"), Some("organic")}

MediumArgs ==
    {None, Some(""), Some("cpc"), Some("organic"), Some("email"), Some("referral"),
     Some("social"), Some("google"), Some("none"), Some("banner")}

CampaignArgs ==
    {None, Some(""), Some("null"), Some(" "), Some("None"), Some("summer_sale"),
     Some(" Sale ")}

ContentArgs == {None, Some("12345")}

TermArgs == {None, Some("shoes")}

ChannelArgs ==
    [source : SourceArgs, medium : MediumArgs, campaign : CampaignArgs,
     content : ContentArgs, term : TermArgs]

InitChannel ==
    /\ mode = "channel"
    /\ dc_in \in ChannelArgs
    /\ dc_out = None
    /\ ex_in = None
    /\ ex_out = None
    /\ mc_in = None
    /\ mc_out = None
    /\ hp_in = None
    /\ hp_out = <<>>
    /\ PipelineIdle

Classify ==
    /\ mode = "channel"
    /\ dc_out = None
    /\ dc_out' = Some(determine_channel(dc_in.source, dc_in.medium, dc_in.campaign,
                                        dc_in.content, dc_in.term))
    /\ UNCHANGED <<mode, hp_in, hp_out, mc_in, mc_out, dc_in, ex_in, ex_out, pipeline_vars>>

NextChannel == Classify

SpecChannel == InitChannel /\ [][NextChannel]_vars

-----------------------------------------------------------------------------
(* The extractors on their own: one call of one extractor on one payload *)

MaxMoments == 2

MaxAttrs == 2

\* all sequences over S of length 0..n
SeqsUpTo(S, n) == UNION {[1..k -> S] : k \in 0..n}

JourneyUtmParams ==
    [source : {Some("facebook")},
     medium : {None, Some("cpc"), Some("null")},
     campaign : {None, Some("c1"), Some("{{campaign.id}}")},
     content : {None, Some(""), Some("null"), Some("{{ad.id}}"), Some("101")},
     term : {None}]

Moments ==
    {None, [utmParameters |-> None]}
        \cup {[utmParameters |-> Some(u)] : u \in JourneyUtmParams}

PayloadTexts ==
    {StrPayload(""), StrPayload(" "), StrPayload("null"), StrPayload("None"),
     StrPayload("[]"), StrPayload("{}"), StrPayload("{\"moments\": []}"),
     StrPayload("{\"moments\": [")}

JourneyPayloads ==
    {None, ObjPayload(None)} \cup PayloadTexts
        \cup {ObjPayload(Some(ms)) : ms \in SeqsUpTo(Moments, MaxMoments)}

Attrs ==
    [key : {"utm_content", "utm_campaign", "utm_medium", "utm_source", "fbclid", "note"},
     value : {None, Some(""), Some("null"), Some("101")}]

AttributesPayloads ==
    {None} \cup PayloadTexts
        \cup {ListPayload(as) : as \in SeqsUpTo(Attrs, MaxAttrs)}

DirectRows ==
    [customer_utm_source : {None, Some("google")},
     customer_utm_medium : {None, Some(" "), Some("cpc")},
     customer_utm_campaign : {None, Some("null"), Some("c1")},
     customer_utm_content : {None, Some(""), Some(" "), Some("null"), Some("101")},
     customer_utm_term : {None, Some("shoes")}]

ExtractorArgs ==
    {[kind |-> "journey", payload |-> j] : j \in JourneyPayloads}
        \cup {[kind |-> "attributes", payload |-> a] : a \in AttributesPayloads}
        \cup {[kind |-> "direct", payload |-> d] : d \in DirectRows}

Pending == <<"pending">>

Returned(r) == <<"returned", r>>

InitExtract ==
    /\ mode = "extract"
    /\ ex_in \in ExtractorArgs
    /\ ex_out = Pending
    /\ dc_in = None
    /\ dc_out = None
    /\ mc_in = None
    /\ mc_out = None
    /\ hp_in = None
    /\ hp_out = <<>>
    /\ PipelineIdle

ParseJourney ==
    /\ mode = "extract" /\ ex_out = Pending /\ ex_in.kind = "journey"
    /\ ex_out' = Returned(parse_customer_journey(ex_in.payload))
    /\ UNCHANGED <<mode, hp_in, hp_out, mc_in, mc_out, dc_in, dc_out, ex_in, pipeline_vars>>

ParseAttributes ==
    /\ mode = "extract" /\ ex_out = Pending /\ ex_in.kind = "attributes"
    /\ ex_out' = Returned(parse_custom_attributes(ex_in.payload))
    /\ UNCHANGED <<mode, hp_in, hp_out, mc_in, mc_out, dc_in, dc_out, ex_in, pipeline_vars>>

GetDirect ==
    /\ mode = "extract" /\ ex_out = Pending /\ ex_in.kind = "direct"
    /\ ex_out' = Returned(get_direct_utm_data(ex_in.payload))
    /\ UNCHANGED <<mode, hp_in, hp_out, mc_in, mc_out, dc_in, dc_out, ex_in, pipeline_vars>>

NextExtract == ParseJourney \/ ParseAttributes \/ GetDirect

SpecExtract == InitExtract /\ [][NextExtract]_vars

-----------------------------------------------------------------------------
(* The batch pipeline: process_attribution, then create_granular_insights *)

MaxOrders == 2

UtmParams(source, medium, campaign, content) ==
    [source |-> source, medium |-> medium, campaign |-> campaign, content |-> content,
     term |-> None]

\* a decoded journey of one moment
OneMoment(utm) == ObjPayload(Some(<<[utmParameters |-> Some(utm)]>>))

UtmAttrs(campaign, source) ==
    ListPayload(<<[key |-> "utm_campaign", value |-> Some(campaign)],
                  [key |-> "utm_source", value |-> Some(source)]>>)

LineItem(sku, quantity, unit_cost) ==
    [sku |-> sku, quantity |-> quantity, unit_cost_amount |-> unit_cost]

Timestamp(date, hour) == Some([date |-> date, hour |-> hour])

\* an order with no attribution data at all, placed in hour 0 of day 1
PlainOrder ==
    [created_at_ist |-> Timestamp(1, 0), total_price_amount |-> Some(200),
     customer_journey |-> None, custom_attributes |-> None,
     customer_utm_source |-> None, customer_utm_medium |-> None,
     customer_utm_campaign |-> None, customer_utm_content |-> None,
     customer_utm_term |-> None, customer_referrer_url |-> None,
     line_items |-> <<LineItem(Some("SKU-A"), 1, 40)>>]

\* all three sources filled in: the journey names ad 101
JourneyOrder ==
    [PlainOrder EXCEPT
        !.total_price_amount = Some(500),
        !.customer_journey = OneMoment(UtmParams(Some("facebook"), Some("cpc"), None,
                                                 Some("101"))),
        !.custom_attributes = UtmAttrs("999", "google"),
        !.customer_utm_source = Some("google"), !.customer_utm_medium = Some("cpc"),
        !.customer_utm_campaign = Some("c1")]

\* custom attributes and direct columns, no journey, in hour 1: a Google
\* campaign no ad row carries; three line items
AttributesOrder ==
    [PlainOrder EXCEPT
        !.created_at_ist = Timestamp(1, 1),
        !.total_price_amount = Some(300),
        !.custom_attributes = UtmAttrs("999", "google"),
        !.customer_utm_campaign = Some("c1"),
        !.line_items = <<LineItem(Some("SKU-A"), 2, 40), LineItem(Some("SKU-B"), 1, 25),
                         LineItem(None, 1, 5)>>]

\* a journey of templates only, and direct columns: a source and the medium
\* 'email'
EmailOrder ==
    [PlainOrder EXCEPT
        !.total_price_amount = Some(100),
        !.customer_journey = OneMoment(UtmParams(Some("facebook"), None,
                                                 Some("{{campaign.id}}"), Some("{{ad.id}}"))),
        !.customer_utm_source = Some("newsletter"), !.customer_utm_medium = Some("email")]

\* a journey that does not decode, and attributes naming campaign 11
MalformedJourneyOrder ==
    [PlainOrder EXCEPT
        !.total_price_amount = Some(250),
        !.customer_journey = StrPayload("{\"moments\": ["),
        !.custom_attributes = UtmAttrs("11", "facebook")]

\* direct columns only: the campaign column holds the text 'null'
NullCampaignOrder ==
    [PlainOrder EXCEPT
        !.total_price_amount = Some(150),
        !.customer_utm_campaign = Some("null")]

\* a journey whose campaign is the text 'none' and whose content is a template
NoneCampaignOrder ==
    [PlainOrder EXCEPT
        !.total_price_amount = Some(120),
        !.customer_journey = OneMoment(UtmParams(None, None, Some("none"),
                                                 Some("{{ad.id}}")))]

\* an order whose total price is missing
NoPriceOrder == [PlainOrder EXCEPT !.total_price_amount = None]

\* no attribution data, and a referrer URL of a search engine
ReferrerOrder ==
    [PlainOrder EXCEPT
        !.total_price_amount = Some(180),
        !.customer_referrer_url = Some("https://www.google.com/search?q=shoes")]

\* a journey of two moments: a search visit, then a click on ad 101 of the
\* facebook campaign 'c1'
AdClickOrder ==
    [PlainOrder EXCEPT
        !.total_price_amount = Some(400),
        !.customer_journey =
            ObjPayload(Some(<<[utmParameters |->
                                  Some(UtmParams(Some("google"), Some("organic"), None,
                                                 Some("102")))],
                              [utmParameters |->
                                  Some(UtmParams(Some("facebook"), Some("cpc"), Some("c1"),
                                                 Some("101")))]>>))]

\* custom attributes that do not decode, and direct columns naming campaign 11
MalformedAttributesOrder ==
    [PlainOrder EXCEPT
        !.total_price_amount = Some(220),
        !.custom_attributes = StrPayload("[{\"key\": \"utm_campaign\""),
        !.customer_utm_source = Some("facebook"),
        !.customer_utm_campaign = Some("11")]

OrderTemplates ==
    {PlainOrder, JourneyOrder, AttributesOrder, EmailOrder, MalformedJourneyOrder,
     NullCampaignOrder, NoneCampaignOrder, NoPriceOrder, ReferrerOrder, AdClickOrder,
     MalformedAttributesOrder}

\* orders_df: the orders in order_id order, as the loop's groupby yields them
OrderTables ==
    {[i \in DOMAIN templates |->
        templates[i] @@ [order_id |-> i, order_name |-> "#" \o IntToStr(1000 + i)]]
     : templates \in SeqsUpTo(OrderTemplates, MaxOrders)}

\* ad 101 of adset 21 of campaign 11, delivered in hour 0 of day 1
VideoAd ==
    [campaign_id |-> IntId(11), campaign_name |-> Some("Summer"),
     adset_id |-> IntId(21), adset_name |-> Some("Lookalike"),
     ad_id |-> IntId(101), ad_name |-> Some("Video"),
     date_start |-> <<1>>, hourly_window |-> Some("00:00:00 - 00:59:59"),
     impressions |-> 1000, clicks |-> 20, spend |-> 100, cpm |-> 100, cpc |-> 5, ctr |-> 2,
     action_onsite_web_purchase |-> 1, value_onsite_web_purchase |-> 400]

\* a second delivery row of the same ad and hour, the hour written as '0'
VideoAdAgain == [VideoAd EXCEPT !.hourly_window = Some("0"), !.spend = 60]

\* ad 102 of the same adset, delivered in hour 1
CarouselAd ==
    [VideoAd EXCEPT !.ad_id = IntId(102), !.ad_name = Some("Carousel"),
                    !.hourly_window = Some("01:00:00 - 01:59:59"), !.spend = 80]

\* a daily row of ad 101: no hour can be read from its window
VideoAdDaily == [VideoAd EXCEPT !.hourly_window = Some("all day")]

\* ad 103 of adset 22 of campaign 12: money spent in hour 0, nothing delivered
IdleAd ==
    [VideoAd EXCEPT !.campaign_id = IntId(12), !.campaign_name = Some("Winter"),
                    !.adset_id = IntId(22), !.adset_name = Some("Retarget"),
                    !.ad_id = IntId(103), !.ad_name = Some("Banner"),
                    !.impressions = 0, !.clicks = 0, !.spend = 30,
                    !.cpm = 0, !.cpc = 0, !.ctr = 0,
                    !.action_onsite_web_purchase = 0, !.value_onsite_web_purchase = 0]

\* ad 104 of the same adset: shown in hour 0 but never clicked
UnclickedAd ==
    [IdleAd EXCEPT !.ad_id = IntId(104), !.ad_name = Some("Story"), !.impressions = 300,
                   !.spend = 7, !.cpm = 23]

AdTables ==
    {<<>>, <<VideoAd>>, <<VideoAd, VideoAdAgain>>, <<VideoAd, CarouselAd>>,
     <<VideoAdDaily>>, <<CarouselAd>>, <<VideoAd, IdleAd>>, <<IdleAd, UnclickedAd>>}

Init ==
    /\ mode = "pipeline"
    /\ dc_in = None /\ dc_out = None /\ ex_in = None /\ ex_out = None
    /\ mc_in = None /\ mc_out = None
    /\ hp_in = None /\ hp_out = <<>>
    /\ orders_df \in OrderTables
    /\ ads_df \in AdTables
    /\ pc = "loop"
    /\ order_idx = 0
    /\ results = <<>>
    /\ calls = <<>>
    /\ results_df = <<>>
    /\ granular = <<>>
    /\ results_columns = {}
    /\ granular_columns = {}

\* a mutant: an order whose body raises ends the run
ProcessOrder_AbortsOnError ==
    /\ mode = "pipeline" /\ pc = "loop"
    /\ order_idx < Len(orders_df)
    /\ LET order == orders_df[order_idx + 1] IN
       IF OrderRaises(order)
       THEN pc' = "raised" /\ UNCHANGED <<results, calls, order_idx>>
       ELSE \E skus \in SkuTexts(order) :
                /\ results' = Append(results,
                                  OrderResult(order, skus, rollup_ads_to_daily(ads_df)))
                /\ calls' = Append(calls, [order_id |-> order.order_id,
                                           extractors |-> ExtractAttribution(order).calls])
                /\ order_idx' = order_idx + 1
                /\ pc' = pc
    /\ UNCHANGED <<mode, hp_in, hp_out, mc_in, mc_out, dc_in, dc_out, ex_in, ex_out, orders_df, ads_df,
                   results_df, granular, results_columns, granular_columns>>

\* one iteration of the loop over the orders (lines 843-1017): the result is
\* appended, or the order is skipped when the body raises
ProcessOrder ==
    /\ mode = "pipeline" /\ pc = "loop"
    /\ order_idx < Len(orders_df)
    /\ LET order == orders_df[order_idx + 1] IN
       IF OrderRaises(order)
       THEN UNCHANGED <<results, calls>>
       ELSE \E skus \in SkuTexts(order) :
                /\ results' = Append(results,
                                  OrderResult(order, skus, rollup_ads_to_daily(ads_df)))
                /\ calls' = Append(calls, [order_id |-> order.order_id,
                                           extractors |-> ExtractAttribution(order).calls])
    /\ order_idx' = order_idx + 1
    /\ UNCHANGED <<mode, hp_in, hp_out, mc_in, mc_out, dc_in, dc_out, ex_in, ex_out, orders_df, ads_df, pc,
                   results_df, granular, results_columns, granular_columns>>

\* the end of process_attribution (lines 1019-1085)
PostProcess ==
    /\ mode = "pipeline" /\ pc = "loop"
    /\ order_idx = Len(orders_df)
    /\ results_df' = [i \in DOMAIN results |-> PostProcessRow(results[i])]
    /\ results_columns' = ResultColumns(results)
    /\ pc' = "attributed"
    /\ UNCHANGED <<mode, hp_in, hp_out, mc_in, mc_out, dc_in, dc_out, ex_in, ex_out, orders_df, ads_df,
                   order_idx, results, calls, granular, granular_columns>>

\* create_granular_insights(results_df)
CreateGranular ==
    /\ mode = "pipeline" /\ pc = "attributed"
    /\ granular' = create_granular_insights(results_df, ads_df)
    /\ granular_columns' = GranularColumns(granular')
    /\ pc' = "done"
    /\ UNCHANGED <<mode, hp_in, hp_out, mc_in, mc_out, dc_in, dc_out, ex_in, ex_out, orders_df, ads_df,
                   order_idx, results, calls, results_df, results_columns>>

Next == ProcessOrder \/ PostProcess \/ CreateGranular

Spec == Init /\ [][Next]_vars

-----------------------------------------------------------------------------
(* map_attribution_to_campaign called alone *)

\* ad 21 of adset 23 of campaign 13: its ad_id is the adset_id of ad 101
MirrorAd ==
    [VideoAd EXCEPT !.campaign_id = IntId(13), !.campaign_name = Some("Spring"),
                    !.adset_id = IntId(23), !.adset_name = Some("Broad"),
                    !.ad_id = IntId(21), !.ad_name = Some("Mirror"), !.spend = 45]

MappingAdTables == AdTables \cup {<<VideoAd, MirrorAd>>, <<MirrorAd, VideoAd>>}

MappingIds == {"101", "11", "21", "102", "999"}

MappingTypes == {"content", "campaign", "medium"}

\* None, or a record as the extractors build it; the matcher reads its
\* attribution_id and attribution_type only
MappingRecords ==
    {None} \cup {Some(AttributionRecord(None, None, None, None, None, id, type))
                    : id \in MappingIds, type \in MappingTypes}

MappingChannels ==
    {None, Some(""), Some("Meta"), Some("Google"), Some("Organic"), Some("Direct"),
     Some("Email")}

MappingArgs ==
    {[attribution_data |-> a, daily_ads |-> rollup_ads_to_daily(t), channel |-> c]
        : a \in MappingRecords, t \in MappingAdTables, c \in MappingChannels}

InitMapping ==
    /\ mode = "mapping"
    /\ mc_in \in MappingArgs
    /\ mc_out = Pending
    /\ hp_in = None /\ hp_out = <<>>
    /\ dc_in = None /\ dc_out = None /\ ex_in = None /\ ex_out = None
    /\ PipelineIdle

MapToCampaign ==
    /\ mode = "mapping" /\ mc_out = Pending
    /\ mc_out' = Returned(map_attribution_to_campaign(mc_in.attribution_data,
                                                      mc_in.daily_ads, mc_in.channel))
    /\ UNCHANGED <<mode, hp_in, hp_out, mc_in, dc_in, dc_out, ex_in, ex_out, pipeline_vars>>

NextMapping == MapToCampaign

SpecMapping == InitMapping /\ [][NextMapping]_vars

-----------------------------------------------------------------------------
(* The helpers of create_granular_insights and the reclassification passes *)
(* called alone                                                            *)

\* the IDs the calls are made with, each in every form a table may carry
IdNumbers == {0, 7, 101, 12345, 1230000}

\* n in scientific notation: 12345 as '1.2345e+4'
SciText(n) ==
    LET d == IntToStr(n) IN
    CharAt(d, 1) \o (IF Len(d) > 1 THEN "." \o SubSeq(d, 2, Len(d)) ELSE "")
        \o "e+" \o IntToStr(Len(d) - 1)

\* the forms of the integer ID n: the int, its decimal string, the float,
\* and a string in scientific notation
FormsOf(n) == {IntId(n), StrId(IntToStr(n)), FloatId(10 * n), StrId(SciText(n))}

BlankIds == {None, StrId(""), NaN, StrId("Unknown")}

IdArgs ==
    BlankIds \cup UNION {FormsOf(n) : n \in IdNumbers}
        \cup {StrId("101.0"), StrId("1.23E6"), StrId(" 12 "), StrId("1.5"), StrId("-3"),
              StrId("-0.5"), StrId("abc"), StrId("12abc"), StrId("unknown"), StrId(" "),
              StrId("1e"), StrId("."), IntId(-3), FloatId(15), FloatId(-5)}

Hours == 0..23

WindowArgs ==
    {None, Some(""), Some("all day"), Some("0"), Some("7"), Some("07:00"), Some("7am"),
     Some("23"), Some("24"), Some("25:00"), Some("99"), Some("100"), Some("hour 5"),
     Some("1:30 - 2:30"), Some("2025-07-01 13:00")}
        \cup {Some(HourLabel(h)) : h \in Hours}

Timestamps == {None} \cup {Some([date |-> d, hour |-> h]) : d \in {1, 2}, h \in Hours}

\* an ad row of no hour at all
VideoAdUndated == [VideoAd EXCEPT !.hourly_window = None]

WindowTables ==
    {<<VideoAd>>, <<VideoAdDaily>>, <<VideoAdUndated>>, <<VideoAd, VideoAdDaily>>,
     <<VideoAdDaily, CarouselAd>>, <<VideoAdUndated, VideoAdAgain>>,
     <<VideoAdDaily, VideoAdUndated>>}

\* the columns of a result row that the passes of process_attribution read
ResultPassRows ==
    [channel : {"Meta", "Google", "Organic", "Direct"},
     attribution_source : {None, Some("direct_utm")},
     utm_source : {None, Some(""), Some("null"), Some("newsletter")},
     utm_medium : {None, Some("email")},
     utm_campaign : {None, Some("null"), Some("c1")},
     campaign_name : {None, Some("Summer"), Some("Unknown Campaign - Direct")}]

\* the columns of a merged row that the passes of create_granular_insights
\* read, after the fillna('') of the text columns
GranularPassRows ==
    [channel : {"Meta", "Google", "Organic", "Direct", ""},
     attribution_source : {"", "direct_utm"},
     utm_source : {"", "null", "newsletter"},
     utm_medium : {"", "email"},
     utm_campaign : {"", "null", "c1"},
     campaign_name : {None, Some(""), Some("Summer"), Some("Unknown Campaign - Direct")}]

HelperArgs ==
    {[fn |-> "_fix_id", arg |-> id] : id \in IdArgs}
        \cup {[fn |-> "process_passes", arg |-> row] : row \in ResultPassRows}
        \cup {[fn |-> "granular_passes", arg |-> <<row>>] : row \in GranularPassRows}
        \cup {[fn |-> "_normalize_hourly_window", arg |-> w] : w \in WindowArgs}
        \cup {[fn |-> "_format_hour_window", arg |-> ts] : ts \in Timestamps}
        \cup {[fn |-> "hourly_ads", arg |-> ads] : ads \in WindowTables}

InitHelpers ==
    /\ mode = "helpers"
    /\ hp_in \in HelperArgs
    /\ hp_out = <<>>
    /\ dc_in = None /\ dc_out = None /\ ex_in = None /\ ex_out = None
    /\ mc_in = None /\ mc_out = None
    /\ PipelineIdle

\* _fix_id(val)
FixId ==
    /\ mode = "helpers" /\ hp_in.fn = "_fix_id" /\ hp_out = <<>>
    /\ hp_out' = <<_fix_id(hp_in.arg)>>
    /\ UNCHANGED <<mode, hp_in, mc_in, mc_out, dc_in, dc_out, ex_in, ex_out, pipeline_vars>>

\* _fix_id of what _fix_id returned
FixIdAgain ==
    /\ mode = "helpers" /\ hp_in.fn = "_fix_id" /\ Len(hp_out) = 1
    /\ hp_out' = Append(hp_out, _fix_id(StrId(hp_out[1])))
    /\ UNCHANGED <<mode, hp_in, mc_in, mc_out, dc_in, dc_out, ex_in, ex_out, pipeline_vars>>

\* _normalize_hourly_window(s)
NormalizeWindow ==
    /\ mode = "helpers" /\ hp_in.fn = "_normalize_hourly_window" /\ hp_out = <<>>
    /\ hp_out' = <<_normalize_hourly_window(hp_in.arg)>>
    /\ UNCHANGED <<mode, hp_in, mc_in, mc_out, dc_in, dc_out, ex_in, ex_out, pipeline_vars>>

\* _normalize_hourly_window of what it returned
NormalizeWindowAgain ==
    /\ mode = "helpers" /\ hp_in.fn = "_normalize_hourly_window" /\ Len(hp_out) = 1
    /\ hp_out' = Append(hp_out, _normalize_hourly_window(hp_out[1]))
    /\ UNCHANGED <<mode, hp_in, mc_in, mc_out, dc_in, dc_out, ex_in, ex_out, pipeline_vars>>

\* _format_hour_window(ts)
FormatHourWindow ==
    /\ mode = "helpers" /\ hp_in.fn = "_format_hour_window" /\ hp_out = <<>>
    /\ hp_out' = <<_format_hour_window(hp_in.arg)>>
    /\ UNCHANGED <<mode, hp_in, mc_in, mc_out, dc_in, dc_out, ex_in, ex_out, pipeline_vars>>

\* the preparation of the ad side of the join (lines 2121-2131)
KeepHourlyAds ==
    /\ mode = "helpers" /\ hp_in.fn = "hourly_ads" /\ hp_out = <<>>
    /\ hp_out' = <<hourly_ads_subset(hp_in.arg)>>
    /\ UNCHANGED <<mode, hp_in, mc_in, mc_out, dc_in, dc_out, ex_in, ex_out, pipeline_vars>>

\* lines 1046-1085 on one row, and the two passes on their result
PostProcessPasses ==
    /\ mode = "helpers" /\ hp_in.fn = "process_passes" /\ Len(hp_out) < 2
    /\ hp_out' = IF hp_out = <<>> THEN <<PostProcessRow(hp_in.arg)>>
                  ELSE Append(hp_out, PostProcessRow(hp_out[1]))
    /\ UNCHANGED <<mode, hp_in, mc_in, mc_out, dc_in, dc_out, ex_in, ex_out, pipeline_vars>>

\* lines 2274-2323 on a table, and on their result
GranularPasses ==
    /\ mode = "helpers" /\ hp_in.fn = "granular_passes" /\ Len(hp_out) < 2
    /\ hp_out' = IF hp_out = <<>> THEN <<ReclassifyRows(hp_in.arg)>>
                  ELSE Append(hp_out, ReclassifyRows(hp_out[1]))
    /\ UNCHANGED <<mode, hp_in, mc_in, mc_out, dc_in, dc_out, ex_in, ex_out, pipeline_vars>>

NextHelpers ==
    \/ FixId \/ FixIdAgain
    \/ PostProcessPasses \/ GranularPasses
    \/ NormalizeWindow \/ NormalizeWindowAgain
    \/ FormatHourWindow
    \/ KeepHourlyAds

SpecHelpers == InitHelpers /\ [][NextHelpers]_vars

-----------------------------------------------------------------------------
(* Claims about determine_channel, under SpecChannel *)

Channels == {"Meta", "Google", "Organic", "Direct"}

Classified == mode = "channel" /\ dc_out # None

\* C6: determine_channel is total with range {Meta, Google, Organic, Direct}:
\* whatever the source, medium, campaign, content and term are (None, empty,
\* 'null', 'none', unrecognised strings), the call returns one of the four.
C6_ChannelRange == Classified => Val(dc_out) \in Channels

\* an unrecognised source and medium, no campaign: still one of the four
C6_Witness ==
    /\ Classified
    /\ dc_in.source = Some("x") /\ dc_in.medium = Some("banner")
    /\ dc_in.campaign = Some("null")
    /\ Val(dc_out) = "Organic"

\* C7: the four examples of the spec: (google, cpc, summer_sale) is Google,
\* (facebook, None, None) is Meta, ('', '', '') is Direct and
\* (bing, organic, no campaign) is Organic, whatever content and term are.
C7_Examples ==
    Classified =>
        /\ (dc_in.source = Some("google") /\ dc_in.medium = Some("cpc")
                /\ dc_in.campaign = Some("summer_sale")) => Val(dc_out) = "Google"
        /\ (dc_in.source = Some("facebook") /\ dc_in.medium = None
                /\ dc_in.campaign = None) => Val(dc_out) = "Meta"
        /\ (dc_in.source = Some("") /\ dc_in.medium = Some("")
                /\ dc_in.campaign = Some("")) => Val(dc_out) = "Direct"
        /\ (dc_in.source = Some("bing") /\ dc_in.medium = Some("organic")
                /\ dc_in.campaign = None) => Val(dc_out) = "Organic"

C7_Witness ==
    /\ Classified
    /\ dc_in.source = Some("google") /\ dc_in.medium = Some("cpc")
    /\ dc_in.campaign = Some("summer_sale")
    /\ Val(dc_out) = "Google"

\* the campaign argument counts: non-empty once lower-cased and trimmed, and
\* neither 'null' nor 'none'
CampaignPresent(o) ==
    /\ o # None
    /\ Strip(Lower(Val(o))) \notin {"", "null", "none"}

Mentions(o, word) == o # None /\ Contains(Strip(Lower(Val(o))), word)

\* C8: with a campaign present the result is Google when source or medium
\* mentions 'google' (or source mentions 'googleadservices') and Meta
\* otherwise, never Organic or Direct, whatever organic keyword or search
\* engine the source and medium name.
C8_CampaignIsPaid ==
    (Classified /\ CampaignPresent(dc_in.campaign)) =>
        Val(dc_out) =
            IF \/ Mentions(dc_in.source, "google")
               \/ Mentions(dc_in.medium, "google")
               \/ Mentions(dc_in.source, "googleadservices")
            THEN "Google" ELSE "Meta"

\* a campaign on a search-engine source with an organic medium is Meta
C8_Witness ==
    /\ Classified
    /\ dc_in.campaign = Some(" Sale ")
    /\ dc_in.source = Some("bing") /\ dc_in.medium = Some("organic")
    /\ Val(dc_out) = "Meta"

\* C21: whenever source or medium mentions 'googleadservices',
\* determine_channel returns Google, also when campaign, content and term
\* are all empty.
C21_AdServicesIsGoogle ==
    (Classified /\ (\/ Mentions(dc_in.source, "googleadservices")
                    \/ Mentions(dc_in.medium, "googleadservices"))) =>
        Val(dc_out) = "Google"

\* the argument as the classifier compares it: lower-cased and trimmed, ''
\* for None
Compared(o) == IF o = None THEN "" ELSE Strip(Lower(Val(o)))

DirectTokens == {"direct", "none", "null", ""}

\* a rule placed before the direct-traffic rule decides the call
EarlierRuleMatches(source, medium) ==
    \/ \E word \in {"organic", "search", "natural", "seo", "unpaid"} :
          Contains(medium, word) \/ Contains(source, word)
    \/ \E engine \in {"bing", "yahoo", "duckduckgo", "baidu", "yandex", "qwant"} :
          Contains(source, engine)
    \/ Contains(source, "google") \/ Contains(medium, "google")
    \/ \E word \in {"facebook", "fb", "instagram", "ig", "meta", "igshopping", "an"} :
          Contains(source, word)
    \/ source = "{{site_source_name}}"

\* C22: with no campaign present and no earlier rule matching, when source or
\* medium is a direct-traffic token (direct, none, null, empty) the result is
\* Organic only if the source is non-empty, longer than one character and
\* not itself a direct token, and Direct otherwise; source 'direct' with an
\* empty medium gives Direct.
C22_DirectTokens ==
    LET source == Compared(dc_in.source)
        medium == Compared(dc_in.medium)
    IN  (/\ Classified
         /\ ~CampaignPresent(dc_in.campaign)
         /\ ~EarlierRuleMatches(source, medium)
         /\ source \in DirectTokens \/ medium \in DirectTokens) =>
            Val(dc_out) = IF source # "" /\ Len(source) > 1 /\ source \notin DirectTokens
                          THEN "Organic" ELSE "Direct"

\* C23: with the source absent (None or empty) and no campaign present, the
\* medium alone decides: search, organic, natural, seo and unpaid give
\* Organic, social, social-media and socialmedia give Meta, referral gives
\* Organic, email gives Direct and cpc gives Google.
C23_MediumAlone ==
    LET medium == Compared(dc_in.medium) IN
    (/\ Classified
     /\ dc_in.source \in {None, Some("")}
     /\ ~CampaignPresent(dc_in.campaign)) =>
        /\ medium \in {"search", "organic", "natural", "seo", "unpaid"} =>
              Val(dc_out) = "Organic"
        /\ medium \in {"social", "social-media", "socialmedia"} => Val(dc_out) = "Meta"
        /\ medium = "referral" => Val(dc_out) = "Organic"
        /\ medium = "email" => Val(dc_out) = "Direct"
        /\ medium = "cpc" => Val(dc_out) = "Google"

-----------------------------------------------------------------------------
(* Claims about process_attribution, under Spec *)

Attributed == mode = "pipeline" /\ pc \in {"attributed", "done"}

\* the order a result row was made from
OrderOf(row) == orders_df[row.order_id]

\* the extractors called for the order of a result row
CallsOf(row) ==
    LET logged == SelectSeq(calls, LAMBDA c : c.order_id = row.order_id)
    IN  {logged[1].extractors[i] : i \in DOMAIN logged[1].extractors}

\* the row carries the fields of the record an extractor returned
FieldsFrom(row, source, rec) ==
    /\ row.attribution_source = Some(source)
    /\ row.attribution_id = Some(Val(rec).attribution_id)
    /\ row.attribution_type = Some(Val(rec).attribution_type)
    /\ row.utm_source = Val(rec).source /\ row.utm_medium = Val(rec).medium
    /\ row.utm_campaign = Val(rec).campaign /\ row.utm_content = Val(rec).content
    /\ row.utm_term = Val(rec).term

NoFields(row) ==
    /\ row.attribution_source = None /\ row.attribution_id = None
    /\ row.attribution_type = None /\ row.utm_source = None /\ row.utm_medium = None
    /\ row.utm_campaign = None /\ row.utm_content = None /\ row.utm_term = None

\* C2: every emitted order has attribution_source 'customer_journey' when
\* parse_customer_journey returns a record for it, else 'custom_attributes'
\* when parse_custom_attributes does, else 'direct_utm' when
\* get_direct_utm_data does, else None; its attribution fields are those of
\* that record, and no extractor of lower priority was called after one of
\* higher priority succeeded.
C2_FirstSucceedingExtractor ==
    mode = "pipeline" =>
        \A i \in DOMAIN results :
            LET row == results[i]
                from_journey == parse_customer_journey(OrderOf(row).customer_journey)
                from_attrs == parse_custom_attributes(OrderOf(row).custom_attributes)
                from_direct == get_direct_utm_data(OrderOf(row))
            IN  IF from_journey # None
                THEN /\ FieldsFrom(row, "customer_journey", from_journey)
                     /\ CallsOf(row) = {"parse_customer_journey"}
                ELSE IF from_attrs # None
                THEN /\ FieldsFrom(row, "custom_attributes", from_attrs)
                     /\ "get_direct_utm_data" \notin CallsOf(row)
                ELSE IF from_direct # None
                THEN FieldsFrom(row, "direct_utm", from_direct)
                ELSE NoFields(row)

\* an order all three extractors return a record for: the journey is taken
\* and the other two are never called
C2_Witness ==
    /\ mode = "pipeline"
    /\ \E i \in DOMAIN results :
        /\ parse_customer_journey(OrderOf(results[i]).customer_journey) # None
        /\ parse_custom_attributes(OrderOf(results[i]).custom_attributes) # None
        /\ get_direct_utm_data(OrderOf(results[i])) # None
        /\ results[i].attribution_source = Some("customer_journey")
        /\ results[i].utm_source = Some("facebook")
        /\ CallsOf(results[i]) = {"parse_customer_journey"}

\* C9: after the post-processing of process_attribution every row the loop
\* classified Direct that has a non-empty utm_campaign has channel Meta, and
\* so has, after the reclassification inside create_granular_insights, every
\* granular row that was Direct with a non-empty utm_campaign before it.
C9_DirectWithCampaignIsMeta ==
    /\ Attributed =>
        \A i \in DOMAIN results :
            (results[i].channel = "Direct" /\ NotBlank(results[i].utm_campaign))
                => results_df[i].channel = "Meta"
    /\ (mode = "pipeline" /\ pc = "done" /\ results_df # <<>> /\ ads_df # <<>>) =>
        /\ \A i \in DOMAIN GranularClassified(results_df, ads_df) :
            (/\ GranularClassified(results_df, ads_df)[i].channel = "Direct"
             /\ GranularClassified(results_df, ads_df)[i].utm_campaign # "")
                => GranularReclassified(results_df, ads_df)[i].channel = "Meta"
        /\ \A i \in DOMAIN granular :
            granular[i].utm_campaign # "" => granular[i].channel # "Direct"

\* an order the loop left Direct with utm_campaign 'none', made Meta by the
\* post-processing; and a granular row that entered the reclassification as
\* Direct with a utm_campaign
C9_Witness ==
    /\ mode = "pipeline" /\ pc = "done" /\ ads_df # <<>>
    /\ \E i \in DOMAIN results :
        /\ results[i].channel = "Direct" /\ results[i].utm_campaign = Some("none")
        /\ results_df[i].channel = "Meta"
    /\ \E i \in DOMAIN GranularClassified(results_df, ads_df) :
        /\ GranularClassified(results_df, ads_df)[i].channel = "Direct"
        /\ GranularClassified(results_df, ads_df)[i].utm_campaign = "none"
        /\ GranularReclassified(results_df, ads_df)[i].channel = "Meta"

\* C10: after the post-processing of process_attribution every row the loop
\* classified Direct that has a non-empty utm_source and no utm_campaign has
\* channel Organic.
C10_DirectWithSourceIsOrganic ==
    Attributed =>
        \A i \in DOMAIN results :
            (/\ results[i].channel = "Direct"
             /\ NotBlank(results[i].utm_source)
             /\ ~NotBlank(results[i].utm_campaign))
                => results_df[i].channel = "Organic"

\* the number of rows a table has for an order
RowsFor(table, order_id) ==
    Cardinality({i \in DOMAIN table : table[i].order_id = order_id})

\* the table has one row per order that did not raise among the first upto
\* orders, and no other row
CoversProcessed(table, upto) ==
    /\ \A i \in 1..upto :
          RowsFor(table, orders_df[i].order_id) = IF OrderRaises(orders_df[i]) THEN 0 ELSE 1
    /\ \A j \in DOMAIN table : \E i \in 1..upto : orders_df[i].order_id = table[j].order_id

\* C14: process_attribution tolerates failing orders: the run goes on past an
\* order whose processing raises, the output has exactly one row for every
\* order whose processing did not raise, none for an order whose processing
\* raised, and no order_id in two rows.
C14_PartialFailureTolerant ==
    mode = "pipeline" =>
        /\ pc \in {"loop", "attributed", "done"}
        /\ pc = "loop" => order_idx <= Len(orders_df) /\ CoversProcessed(results, order_idx)
        /\ pc # "loop" => CoversProcessed(results_df, Len(orders_df))

\* the first order of two raised, the second did not, and the table is returned
C14_Witness ==
    /\ mode = "pipeline" /\ pc = "attributed"
    /\ Len(orders_df) = 2
    /\ OrderRaises(orders_df[1]) /\ ~OrderRaises(orders_df[2])
    /\ Len(results_df) = 1 /\ results_df[1].order_id = orders_df[2].order_id

\* C15: for an order no extractor returns a record for, and whose classified
\* channel is Direct, the emitted row's channel is the one
\* infer_channel_from_order_patterns gives: Organic for a referrer URL of a
\* search engine, Meta for one of facebook.com or instagram.com, and Direct
\* only when no pattern matches.
C15_DirectChannelIsInferred ==
    Attributed =>
        \A i \in DOMAIN results_df :
            LET row == results_df[i]
                order == OrderOf(row)
            IN  /\ ExtractAttribution(order).data = None
                /\ determine_channel(None, None, None, None, None) = "Direct"
                => row.channel = infer_channel_from_order_patterns(order)

\* the extractors called for the order of a result row, in call order
CallSequenceOf(row) ==
    SelectSeq(calls, LAMBDA c : c.order_id = row.order_id)[1].extractors

\* what a parser gives for a payload it is called on, None for a payload
\* that does not decode
Recovered(p, parser(_)) == IF Undecodable(p) THEN None ELSE parser(p)

\* the source the chain ends on when an undecodable payload counts as
\* 'no attribution from this source'
SourceAfterRecovery(order) ==
    IF Recovered(order.customer_journey, parse_customer_journey) # None
    THEN Some("customer_journey")
    ELSE IF Recovered(order.custom_attributes, parse_custom_attributes) # None
    THEN Some("custom_attributes")
    ELSE IF get_direct_utm_data(order) # None THEN Some("direct_utm")
    ELSE None

\* the chain went on after the parser that failed
ChainWentOn(order, extractors) ==
    /\ Undecodable(order.customer_journey) =>
          \E i \in DOMAIN extractors :
              /\ extractors[i] = "parse_customer_journey"
              /\ i < Len(extractors)
              /\ extractors[i + 1] \in {"parse_custom_attributes", "get_direct_utm_data"}
    /\ Undecodable(order.custom_attributes)
          /\ Recovered(order.customer_journey, parse_customer_journey) = None =>
          \E i \in DOMAIN extractors :
              /\ extractors[i] = "parse_custom_attributes"
              /\ i < Len(extractors)
              /\ extractors[i + 1] = "get_direct_utm_data"

\* C19: when the customer-journey payload (or the custom-attributes payload)
\* of an order cannot be parsed, the parser returns None without raising,
\* the chain goes on to the next source (custom attributes, then the direct
\* UTM columns), and the order is emitted with the attribution_source of the
\* later source that succeeded, or None.
C19_ParseFailureFallsThrough ==
    Attributed =>
        \A i \in DOMAIN orders_df :
            LET order == orders_df[i] IN
            /\ Undecodable(order.customer_journey) \/ Undecodable(order.custom_attributes)
            /\ order.total_price_amount # None
            => /\ RowsFor(results_df, order.order_id) = 1
               /\ \A n \in DOMAIN results_df :
                     results_df[n].order_id = order.order_id =>
                        /\ results_df[n].attribution_source = SourceAfterRecovery(order)
                        /\ ChainWentOn(order, CallSequenceOf(results_df[n]))

\* two orders are emitted: one whose journey does not decode, attributed by
\* its custom attributes, and one whose custom attributes do not decode,
\* attributed by its direct columns
C19_Witness ==
    /\ Attributed /\ Len(results_df) = 2
    /\ \E m, n \in DOMAIN results_df :
          /\ Undecodable(OrderOf(results_df[m]).customer_journey)
          /\ results_df[m].attribution_source = Some("custom_attributes")
          /\ Undecodable(OrderOf(results_df[n]).custom_attributes)
          /\ results_df[n].attribution_source = Some("direct_utm")

\* C20: in the table process_attribution returns, after both
\* reclassification passes, every row has is_paid_channel = (channel is Meta
\* or Google) and is_attributed = (attribution_source is not None).
C20_FlagsFollowChannel ==
    Attributed =>
        \A n \in DOMAIN results_df :
            /\ results_df[n].is_paid_channel = (results_df[n].channel \in {"Meta", "Google"})
            /\ results_df[n].is_attributed = (results_df[n].attribution_source # None)

\* the table has a row a pass reclassified from Direct, and a row left Direct
C20_Witness ==
    /\ Attributed
    /\ \E m, n \in DOMAIN results_df :
          /\ results[m].channel = "Direct" /\ results_df[m].channel = "Meta"
          /\ results_df[m].is_paid_channel /\ results_df[m].is_attributed
          /\ results_df[n].channel = "Direct" /\ ~results_df[n].is_attributed

-----------------------------------------------------------------------------
(* Claims about create_granular_insights, under Spec *)

Reconciled == mode = "pipeline" /\ pc = "done"

\* the exact key of a granular row
RowKey(r) ==
    <<r.campaign_id, r.campaign_name, r.adset_id, r.adset_name, r.ad_id, r.ad_name,
      r.date_start, r.hour_label>>

\* C1: the table create_granular_insights returns has at most one row per
\* exact key (campaign_id, campaign_name, adset_id, adset_name, ad_id,
\* ad_name, date, hour_label), also when several hourly ad rows normalise to
\* one key.
C1_OneRowPerKey ==
    Reconciled =>
        \A i, j \in DOMAIN granular : RowKey(granular[i]) = RowKey(granular[j]) => i = j

\* two hourly rows of the ad input normalise to one key, the table repeats a
\* key before the de-dupe guard, and rows are returned
C1_Witness ==
    /\ Reconciled
    /\ granular # <<>>
    /\ \E i, j \in DOMAIN ads_df :
        /\ i < j /\ ads_df[i].hourly_window # ads_df[j].hourly_window
        /\ GranularKey(HourlyAd(ads_df[i])) = GranularKey(HourlyAd(ads_df[j]))
    /\ HasDuplicates(GranularCleaned(results_df, ads_df))

\* the result rows of the orders that share the key k
OrdersWithKey(k) == SelectSeq(results_df, LAMBDA o : GranularKey(PreparedOrder(o)) = k)

OrderIdsWithKey(k) == {OrdersWithKey(k)[i].order_id : i \in DOMAIN OrdersWithKey(k)}

\* the granular rows of the key k: its IDs, date and hour (the names of a key
\* no ad row has are rewritten), carrying the orders of k
RowsOfKey(k) ==
    {i \in DOMAIN granular :
        /\ granular[i].campaign_id = k[1] /\ granular[i].adset_id = k[3]
        /\ granular[i].ad_id = k[5] /\ granular[i].date_start = k[7]
        /\ granular[i].hour_label = k[8]
        /\ granular[i].order_ids = JoinOrderIds(OrderIdsWithKey(k))}

\* C4: when several orders of the attribution results share one key, the
\* table returned has exactly one row for the key, its shopify_orders the
\* number of distinct orders of the key and its shopify_revenue the sum of
\* their order values.
C4_SharedKeyCountedOnce ==
    (Reconciled /\ ads_df # <<>>) =>
        \A n \in DOMAIN results_df :
            LET k == GranularKey(PreparedOrder(results_df[n])) IN
            Cardinality(OrderIdsWithKey(k)) >= 2 =>
                /\ Cardinality(RowsOfKey(k)) = 1
                /\ \A i \in RowsOfKey(k) :
                    /\ granular[i].shopify_orders = Cardinality(OrderIdsWithKey(k))
                    /\ granular[i].shopify_revenue =
                          SumSeq([m \in DOMAIN OrdersWithKey(k) |->
                                     OrdersWithKey(k)[m].order_value])

\* the order IDs an order_ids text lists
ListsOrder(order_ids, order_id) ==
    \E ids \in SUBSET (1..MaxOrders) : order_id \in ids /\ order_ids = JoinOrderIds(ids)

\* C5: every order of the attribution results that no ad row shares the key
\* of is in the table returned, in a row whose ad metrics (spend, cpm, cpc,
\* ctr, purchase count and value) are all 0 and whose campaign, adset and ad
\* names are 'Unknown Campaign - ', 'Unknown Adset - ' and 'Unknown Ad - '
\* followed by the channel of the row.
C5_UnmatchedOrderKept ==
    (Reconciled /\ ads_df # <<>>) =>
        \A n \in DOMAIN results_df :
            (\A a \in DOMAIN ads_df :
                HourlyAd(ads_df[a]).hour_label = None
                \/ GranularKey(HourlyAd(ads_df[a])) # GranularKey(PreparedOrder(results_df[n])))
            => \E i \in DOMAIN granular :
                /\ ListsOrder(granular[i].order_ids, results_df[n].order_id)
                /\ \A f \in {"spend", "cpm", "cpc", "ctr", "action_onsite_web_purchase",
                             "value_onsite_web_purchase"} :
                    f \in DOMAIN granular[i] /\ granular[i][f] = Some(0)
                /\ granular[i].campaign_name = Some("Unknown Campaign - " \o granular[i].channel)
                /\ granular[i].adset_name = Some("Unknown Adset - " \o granular[i].channel)
                /\ granular[i].ad_name = Some("Unknown Ad - " \o granular[i].channel)

\* C29: orders are conserved by create_granular_insights: for non-empty
\* attribution results and a non-empty ad input (several hourly rows may
\* share one key), the shopify_orders of the rows returned add up to the
\* number of distinct orders, their shopify_revenue to the sum of the order
\* values, and every order ID is listed in the order_ids of exactly one row.
C29_OrdersConserved ==
    (Reconciled /\ results_df # <<>> /\ ads_df # <<>>) =>
        /\ SumSeq([i \in DOMAIN granular |-> granular[i].shopify_orders]) =
              Cardinality({results_df[n].order_id : n \in DOMAIN results_df})
        /\ SumSeq([i \in DOMAIN granular |-> granular[i].shopify_revenue]) =
              SumSeq([n \in DOMAIN results_df |-> results_df[n].order_value])
        /\ \A n \in DOMAIN results_df :
              Cardinality({i \in DOMAIN granular :
                              ListsOrder(granular[i].order_ids, results_df[n].order_id)}) = 1

\* the granular rows that list the order of result row n and no other
RowsOfOrderAlone(n) ==
    {i \in DOMAIN granular : granular[i].order_ids = IntToStr(results_df[n].order_id)}

\* no other order of the results has the key of result row n
AloneInKey(n) ==
    Cardinality(OrderIdsWithKey(GranularKey(PreparedOrder(results_df[n])))) = 1

\* C30: for every granular key that aggregates exactly one order, the channel
\* of the row create_granular_insights returns (after its own classification
\* and its two reclassification passes) is the final channel of that order
\* in the table process_attribution returns.
C30_ChannelsAgree ==
    Reconciled =>
        \A n \in DOMAIN results_df :
            AloneInKey(n) =>
                \A i \in RowsOfOrderAlone(n) : granular[i].channel = results_df[n].channel

\* an order that determine_channel labels Direct and the first pass makes
\* Meta is alone in its key, and its granular row is a Meta row
C30_Witness ==
    /\ Reconciled
    /\ \E n \in DOMAIN results_df :
          /\ AloneInKey(n)
          /\ results[n].channel = "Direct" /\ results_df[n].channel = "Meta"
          /\ determine_channel(results_df[n].utm_source, results_df[n].utm_medium,
                               results_df[n].utm_campaign, results_df[n].utm_content,
                               results_df[n].utm_term) = "Direct"
          /\ \E i \in RowsOfOrderAlone(n) : granular[i].channel = "Meta"

-----------------------------------------------------------------------------
(* Claims about rollup_ads_to_daily, under Spec *)

\* the table process_attribution holds from line 824 on
DailyAds == rollup_ads_to_daily(ads_df)

IsZero(x) == x = [num |-> 0, den |-> 1]

\* x is the finite number n / d
IsQuotient(x, n, d) == x.den # 0 /\ x.num * d = n * x.den

DailyRowDefined(row) ==
    /\ row.cpm.den # 0 /\ row.cpc.den # 0 /\ row.ctr.den # 0
    /\ IF row.impressions = 0 THEN IsZero(row.cpm) /\ IsZero(row.ctr)
       ELSE /\ IsQuotient(row.cpm, row.spend * 1000, row.impressions)
            /\ IsQuotient(row.ctr, row.clicks * 100, row.impressions)
    /\ IF row.clicks = 0 THEN IsZero(row.cpc)
       ELSE IsQuotient(row.cpc, row.spend, row.clicks)

\* C11: in every row of rollup_ads_to_daily, cpm and ctr are exactly 0 when the
\* summed impressions are 0 and cpc is exactly 0 when the summed clicks are 0;
\* otherwise cpm = spend/impressions*1000, cpc = spend/clicks and
\* ctr = clicks/impressions*100 of the summed values. No row carries the
\* result of a division by zero.
C11_DailyMetricsDefined ==
    mode = "pipeline" => \A i \in DOMAIN DailyAds : DailyRowDefined(DailyAds[i])

\* the rollup has a row without impressions whose spend is not 0, and a row
\* with impressions, spend and no clicks
C11_Witness ==
    /\ mode = "pipeline" /\ pc = "done"
    /\ \E i, j \in DOMAIN DailyAds :
          /\ DailyAds[i].impressions = 0 /\ DailyAds[i].spend > 0
          /\ DailyAds[j].impressions > 0 /\ DailyAds[j].clicks = 0
          /\ ~IsZero(DailyAds[j].cpm)

-----------------------------------------------------------------------------
(* Claims about map_attribution_to_campaign, under SpecMapping *)

Mapped == mode = "mapping" /\ mc_out # Pending

MappingResult == mc_out[2]

\* the placeholder mapping of a channel
Placeholder(channel) ==
    [campaign_id |-> None, campaign_name |-> Some("Unknown Campaign - " \o channel),
     adset_id |-> None, adset_name |-> Some("Unknown Adset - " \o channel),
     ad_id |-> None, ad_name |-> Some("Unknown Ad - " \o channel),
     impressions |-> 0, clicks |-> 0, spend |-> 0, ad_purchases |-> 0, ad_revenue |-> 0]

\* what a call without a usable match returns
FallsBack(channel, result) ==
    IF channel \in {Some("Meta"), Some("Google"), Some("Organic")}
    THEN result = Some(Placeholder(Val(channel)))
    ELSE result = None

\* C12: map_attribution_to_campaign called with the record None returns the
\* placeholder mapping (names 'Unknown Campaign/Adset/Ad - <channel>', all IDs
\* None, impressions, clicks, spend, ad_purchases and ad_revenue 0) exactly
\* when the channel is Meta, Google or Organic, and None for any other channel.
C12_PlaceholderWithoutRecord ==
    Mapped /\ mc_in.attribution_data = None => FallsBack(mc_in.channel, MappingResult)

\* a call without a record, over a table that has rows, for a tracked channel
C12_Witness ==
    /\ Mapped /\ mc_in.attribution_data = None /\ mc_in.daily_ads # <<>>
    /\ mc_in.channel = Some("Organic")
    /\ MappingResult # None /\ Val(MappingResult).ad_name = Some("Unknown Ad - Organic")

\* the ID column an attribution type selects
Dimension(attribution_type) ==
    IF attribution_type = "content" THEN "ad_id"
    ELSE IF attribution_type = "campaign" THEN "campaign_id"
    ELSE "adset_id"

\* the identifiers and metrics of a daily row
MappingOf(ad) ==
    [campaign_id |-> ad.campaign_id, campaign_name |-> ad.campaign_name,
     adset_id |-> ad.adset_id, adset_name |-> ad.adset_name,
     ad_id |-> ad.ad_id, ad_name |-> ad.ad_name,
     impressions |-> ad.impressions, clicks |-> ad.clicks, spend |-> ad.spend,
     ad_purchases |-> ad.action_onsite_web_purchase,
     ad_revenue |-> ad.value_onsite_web_purchase]

\* the rows of the table whose given column holds the value of the ID
RowsHolding(daily_ads, column, attribution_id) ==
    {i \in DOMAIN daily_ads : IdToStr(daily_ads[i][column]) = attribution_id}

\* C13: with a record, map_attribution_to_campaign compares attribution_id
\* only with the column attribution_type selects (content: ad_id, campaign:
\* campaign_id, medium: adset_id), so an equal value in another column is no
\* match. With a match it returns the identifiers and metrics of a matching
\* daily row; without one, the placeholder for Meta, Google and Organic and
\* None for any other channel.
C13_MatchesSelectedDimension ==
    Mapped /\ mc_in.attribution_data # None =>
        LET rec == Val(mc_in.attribution_data)
            matching == RowsHolding(mc_in.daily_ads, Dimension(rec.attribution_type),
                                    rec.attribution_id)
        IN  IF matching # {}
            THEN \E i \in matching : MappingResult = Some(MappingOf(mc_in.daily_ads[i]))
            ELSE FallsBack(mc_in.channel, MappingResult)

\* the ID '21' is the adset_id of one row and the ad_id of a later row: as
\* content it is matched to the later row
C13_Witness ==
    /\ Mapped /\ mc_in.attribution_data # None
    /\ Val(mc_in.attribution_data).attribution_id = "21"
    /\ Val(mc_in.attribution_data).attribution_type = "content"
    /\ Len(mc_in.daily_ads) = 2
    /\ mc_in.daily_ads[1].adset_id = IntId(21)
    /\ MappingResult # None /\ Val(MappingResult).ad_id = IntId(21)
    /\ Val(MappingResult).adset_id = IntId(23)

-----------------------------------------------------------------------------
(* Claims about the whole run, under Spec *)

\* the order's journey ends in a moment with source 'facebook', medium 'cpc',
\* a campaign and the given content
EndsInAdClick(order, content) ==
    LET journey == order.customer_journey IN
    /\ journey # None /\ journey[1] = "obj" /\ journey[2] # None /\ Val(journey[2]) # <<>>
    /\ LET last == Val(journey[2])[Len(Val(journey[2]))] IN
       /\ last # None /\ last.utmParameters # None
       /\ Val(last.utmParameters).source = Some("facebook")
       /\ Val(last.utmParameters).medium = Some("cpc")
       /\ NotBlank(Val(last.utmParameters).campaign)
       /\ Val(last.utmParameters).content = Some(content)

\* the hourly rows of ads_df of the ad, at the date and hour of the order
HourlyRowsAt(content, order) ==
    {a \in DOMAIN ads_df :
        /\ IdToStr(ads_df[a].ad_id) = content
        /\ order.created_at_ist # None
        /\ ads_df[a].date_start = <<Val(order.created_at_ist).date>>
        /\ _normalize_hourly_window(ads_df[a].hourly_window)
              = Some(HourLabel(Val(order.created_at_ist).hour))}

\* the rows of the granular table for an hourly ad row's key
GranularRowsOf(ad) ==
    {i \in DOMAIN granular :
        /\ granular[i].campaign_id = IdToStr(ad.campaign_id)
        /\ granular[i].campaign_name = ad.campaign_name
        /\ granular[i].adset_id = IdToStr(ad.adset_id)
        /\ granular[i].adset_name = ad.adset_name
        /\ granular[i].ad_id = IdToStr(ad.ad_id)
        /\ granular[i].ad_name = ad.ad_name
        /\ granular[i].date_start = ad.date_start
        /\ granular[i].hour_label = _normalize_hourly_window(ad.hourly_window)}

\* the result row names the ad as its content match on Meta
EmitsAdClick(row, content, ad) ==
    /\ row.channel = "Meta"
    /\ row.attribution_type = Some("content")
    /\ row.attribution_id = Some(content)
    /\ row.ad_id = ad.ad_id

\* the granular table has one row for the ad row's key, with the ad row's
\* spend, one order and the order's total
ReconcilesAdClick(row, ad) ==
    /\ Cardinality(GranularRowsOf(ad)) = 1
    /\ \A i \in GranularRowsOf(ad) :
          /\ granular[i].spend = Some(ad.spend)
          /\ granular[i].shopify_orders = 1
          /\ granular[i].shopify_revenue = row.order_value

\* C16 as stated: for an order whose journey's last UTM moment has source
\* 'facebook', medium 'cpc', a campaign and a content equal to the ad_id of
\* an ad with exactly one hourly row at the order's date and hour,
\* process_attribution emits channel 'Meta', attribution_type 'content' and
\* that ad_id, and create_granular_insights emits for that key one row with
\* the ad row's spend, shopify_orders = 1 and shopify_revenue = the order total.
C16_EndToEndAdClick ==
    Attributed =>
        \A n \in DOMAIN results_df : \A content \in {"101", "102"} :
            LET row == results_df[n]
                at == HourlyRowsAt(content, OrderOf(row))
            IN  EndsInAdClick(OrderOf(row), content) /\ Cardinality(at) = 1 =>
                    \A a \in at :
                        /\ EmitsAdClick(row, content, ads_df[a])
                        /\ Reconciled => ReconcilesAdClick(row, ads_df[a])

\* C16, amended: the same, for an order that is the only one of the run
\* attributed to that ad at that date and hour.
C16_EndToEndSingleOrder ==
    Attributed =>
        \A n \in DOMAIN results_df : \A content \in {"101", "102"} :
            LET row == results_df[n]
                at == HourlyRowsAt(content, OrderOf(row))
            IN  EndsInAdClick(OrderOf(row), content) /\ Cardinality(at) = 1 =>
                    \A a \in at :
                        /\ EmitsAdClick(row, content, ads_df[a])
                        /\ Reconciled
                           /\ OrderIdsWithKey(GranularKey(PreparedOrder(row))) = {row.order_id}
                           => ReconcilesAdClick(row, ads_df[a])

\* the run is over, an order ended in a click on ad 101, which has one hourly
\* row at the order's hour, next to a second order of another key
C16_Witness ==
    /\ Reconciled /\ Len(results_df) = 2
    /\ \E n \in DOMAIN results_df :
          /\ EndsInAdClick(OrderOf(results_df[n]), "101")
          /\ Cardinality(HourlyRowsAt("101", OrderOf(results_df[n]))) = 1
          /\ OrderIdsWithKey(GranularKey(PreparedOrder(results_df[n])))
                = {results_df[n].order_id}
          /\ \E i \in DOMAIN granular :
                granular[i].ad_id = "101" /\ granular[i].shopify_revenue = 400

\* the rows a run of process_attribution on orders_df and ads_df can return
\* for the order of a result row
RowsOfAnyRun(row) ==
    {PostProcessRow(OrderResult(OrderOf(row), skus, DailyAds)) : skus \in SkuTexts(OrderOf(row))}

\* C17: two runs of the pipeline on the same orders and ads give the same
\* output in every field, the comma-joined 'skus' text of each order and the
\* 'order_ids' text of each granular row included: whatever row a second run
\* can emit for an order is the row this run emitted, and the granular table
\* is the one built from these rows.
C17_RunsAgree ==
    Attributed =>
        /\ \A n \in DOMAIN results_df : RowsOfAnyRun(results_df[n]) = {results_df[n]}
        /\ Reconciled => granular = create_granular_insights(results_df, ads_df)

\* the columns the export reads from the granular table (save_results)
GranularSchema ==
    {"campaign_name", "adset_name", "ad_name", "date_start", "hour_label", "channel",
     "spend", "cpm", "cpc", "ctr", "action_onsite_web_purchase",
     "value_onsite_web_purchase", "shopify_orders", "shopify_revenue", "shopify_cogs",
     "total_sku_quantity", "utm_source", "utm_medium", "utm_campaign", "utm_content",
     "utm_term", "order_ids", "attribution_source"}

\* the columns of a row of attribution results
AttributionSchema ==
    {"order_id", "order_name", "order_date", "order_value", "total_cogs",
     "line_items_count", "skus", "unique_skus_count", "total_sku_quantity", "channel",
     "attribution_source", "attribution_id", "attribution_type", "utm_source",
     "utm_medium", "utm_campaign", "utm_content", "utm_term", "campaign_id",
     "campaign_name", "adset_id", "adset_name", "ad_id", "ad_name", "is_attributed",
     "is_paid_channel"}

\* C18: with no orders or no ads, process_attribution and
\* create_granular_insights complete and each result that is empty still has
\* its expected columns; in particular create_granular_insights with orders
\* and no ads keeps the expected columns.
C18_EmptyInputKeepsSchema ==
    Attributed /\ (orders_df = <<>> \/ ads_df = <<>>) =>
        /\ AttributionSchema \subseteq results_columns
        /\ orders_df = <<>> => results_df = <<>>
        /\ Reconciled => granular = <<>> /\ GranularSchema \subseteq granular_columns

-----------------------------------------------------------------------------
(* Claims about the extractors, under SpecExtract *)

GotRecord == mode = "extract" /\ ex_out # Pending /\ ex_out[2] # None

\* a value that may supply the attribution ID: non-empty, not the literal
\* 'null' and, in a journey, not an unresolved {{...}} template
Eligible(o, kind) ==
    /\ o # None /\ Val(o) # "" /\ Val(o) # "null"
    /\ kind = "journey" => ~StartsWith(Val(o), "{{")

\* the record names the first eligible field of content > campaign > medium
NamesFirstEligible(r, kind) ==
    IF Eligible(r.content, kind)
    THEN r.attribution_type = "content" /\ r.attribution_id = Val(r.content)
    ELSE IF Eligible(r.campaign, kind)
    THEN r.attribution_type = "campaign" /\ r.attribution_id = Val(r.campaign)
    ELSE /\ Eligible(r.medium, kind)
         /\ r.attribution_type = "medium" /\ r.attribution_id = Val(r.medium)

\* C3: in every record an extractor returns, attribution_type is the
\* highest-priority field among content > campaign > medium that is non-empty
\* and not the literal 'null' (nor, for the journey, a {{...}} template), and
\* attribution_id is that field's value.
C3_TypeIsFirstEligible == GotRecord => NamesFirstEligible(Val(ex_out[2]), ex_in.kind)

\* the call was parse_customer_journey on a decoded journey with a list of
\* moments, and it has returned
JourneyScanned ==
    /\ mode = "extract" /\ ex_out # Pending /\ ex_in.kind = "journey"
    /\ ex_in.payload # None /\ ex_in.payload[1] = "obj" /\ ex_in.payload[2] # None

JourneyMoments == Val(ex_in.payload[2])

\* the moment carries a non-empty utmParameters object
CarriesUtm(moment) == moment # None /\ moment.utmParameters # None

\* some field of the moment may supply the attribution ID
Usable(moment) ==
    /\ CarriesUtm(moment)
    /\ \E f \in {"content", "campaign", "medium"} :
          Eligible(Val(moment.utmParameters)[f], "journey")

\* the record built from one moment alone: content, then campaign, then
\* medium, each skipped when not eligible; None when none is
BuiltFrom(moment) ==
    LET utm == Val(moment.utmParameters)
        field == IF Eligible(utm.content, "journey") THEN "content"
                 ELSE IF Eligible(utm.campaign, "journey") THEN "campaign"
                 ELSE "medium"
    IN  IF ~Usable(moment) THEN None
        ELSE Some([source |-> utm.source, medium |-> utm.medium,
                   campaign |-> utm.campaign, content |-> utm.content,
                   term |-> utm.term, attribution_id |-> Val(utm[field]),
                   attribution_type |-> field])

\* the last index of the moments at which P holds, 0 when there is none
LastWhere(moments, P(_)) ==
    LET at == {i \in 1..Len(moments) : P(moments[i])} IN
    IF at = {} THEN 0 ELSE CHOOSE i \in at : \A j \in at : j <= i

\* C24 as stated: scanning from last to first, the first moment that carries
\* a non-empty utmParameters object is selected and the result is built from
\* it alone (content, then campaign, then medium, skipping missing, 'null'
\* and {{...}} values); None when no moment qualifies.
C24_FirstUtmMoment ==
    JourneyScanned =>
        LET i == LastWhere(JourneyMoments, CarriesUtm) IN
        ex_out[2] = IF i = 0 THEN None ELSE BuiltFrom(JourneyMoments[i])

\* C24, amended: the moment selected is the first, from last to first, that
\* carries a non-empty utmParameters object with a usable content, campaign
\* or medium; every field of the record comes from that one moment; None
\* when no moment has one.
C24_FirstUsableMoment ==
    JourneyScanned =>
        LET i == LastWhere(JourneyMoments, Usable) IN
        ex_out[2] = IF i = 0 THEN None ELSE BuiltFrom(JourneyMoments[i])

\* the last moment carries UTM parameters without a usable ID, an earlier one
\* has a usable ID, and the record returned is the earlier moment's
C24_Witness ==
    /\ JourneyScanned /\ Len(JourneyMoments) = 2
    /\ CarriesUtm(JourneyMoments[2]) /\ ~Usable(JourneyMoments[2])
    /\ Usable(JourneyMoments[1])
    /\ ex_out[2] # None
    /\ Val(ex_out[2]).attribution_type = "campaign"
    /\ Val(ex_out[2]).campaign = JourneyMoments[1].utmParameters[1].campaign
    /\ Val(ex_out[2]).medium # JourneyMoments[2].utmParameters[1].medium

-----------------------------------------------------------------------------
(* Claims about the helpers of create_granular_insights, under SpecHelpers *)

FixedId == mode = "helpers" /\ hp_in.fn = "_fix_id" /\ hp_out # <<>>

CanonicalLabel(h) ==
    LET hh == IF h < 10 THEN "0" \o IntToStr(h) ELSE IntToStr(h)
    IN  hh \o ":00:00 - " \o hh \o ":59:59"

HasDigit(o) == o # None /\ \E i \in 1..Len(Val(o)) : IsDigit(CharAt(Val(o), i))

\* the first number of one or two digits in a text that has a digit
FirstNumber(text) ==
    LET at == {i \in 1..Len(text) : IsDigit(CharAt(text, i))}
        i == CHOOSE k \in at : \A j \in at : k <= j
        first == DigitVal(CharAt(text, i))
    IN  IF i + 1 \in at THEN 10 * first + DigitVal(CharAt(text, i + 1)) ELSE first

Normalized == mode = "helpers" /\ hp_in.fn = "_normalize_hourly_window" /\ hp_out # <<>>

Formatted == mode = "helpers" /\ hp_in.fn = "_format_hour_window" /\ hp_out # <<>>

HourlyKept == mode = "helpers" /\ hp_in.fn = "hourly_ads" /\ hp_out # <<>>

\* C26: the two sides bucket hours alike: for every hour h in 0..23, a window
\* whose first number of one or two digits is congruent to h modulo 24 is
\* normalised to the label 'hh:00:00 - hh:59:59' that _format_hour_window
\* gives every timestamp of hour h; the normaliser leaves a canonical label
\* as it is; and the ad rows whose window has no digit are left out of the
\* join.
C26_HourBucketsAgree ==
    /\ (Normalized /\ HasDigit(hp_in.arg)) =>
          \A h \in Hours :
              FirstNumber(Val(hp_in.arg)) % 24 = h =>
                  /\ hp_out[1] = Some(CanonicalLabel(h))
                  /\ \A ts \in Timestamps \ {None} :
                        Val(ts).hour = h => _format_hour_window(ts) = hp_out[1]
    /\ (Normalized /\ Len(hp_out) = 2) => hp_out[2] = hp_out[1]
    /\ (Normalized /\ \E h \in Hours : hp_in.arg = Some(CanonicalLabel(h))) =>
          hp_out[1] = hp_in.arg
    /\ (Formatted /\ hp_in.arg # None) =>
          hp_out[1] = Some(CanonicalLabel(Val(hp_in.arg).hour))
    /\ HourlyKept =>
          /\ Len(hp_out[1]) =
                Cardinality({i \in DOMAIN hp_in.arg : HasDigit(hp_in.arg[i].hourly_window)})
          /\ \A i \in DOMAIN hp_out[1] : hp_out[1][i].hour_label # None

\* a window of hour 25 has been put into the bucket of the orders of hour 1
C26_Witness ==
    /\ Normalized /\ hp_in.arg = Some("25:00")
    /\ hp_out = <<Some("01:00:00 - 01:59:59"), Some("01:00:00 - 01:59:59")>>
    /\ _format_hour_window(Some([date |-> 2, hour |-> 1])) = hp_out[1]

-----------------------------------------------------------------------------
(* Claims about the reclassification passes, under SpecHelpers *)

ProcessPassed == mode = "helpers" /\ hp_in.fn = "process_passes" /\ Len(hp_out) = 2

GranularPassed == mode = "helpers" /\ hp_in.fn = "granular_passes" /\ Len(hp_out) = 2

\* C27: the two passes (Direct to Meta on campaign or attribution evidence,
\* then the remaining Direct to Organic on a source or medium) are idempotent:
\* applied again to a table that has been through them they change no row's
\* channel, is_paid_channel or campaign_name, in process_attribution and in
\* create_granular_insights alike.
C27_PassesIdempotent ==
    /\ ProcessPassed =>
          /\ hp_out[2].channel = hp_out[1].channel
          /\ hp_out[2].is_paid_channel = hp_out[1].is_paid_channel
          /\ hp_out[2].campaign_name = hp_out[1].campaign_name
    /\ GranularPassed =>
          \A i \in DOMAIN hp_out[1] :
              /\ hp_out[2][i].channel = hp_out[1][i].channel
              /\ hp_out[2][i].campaign_name = hp_out[1][i].campaign_name

\* a Direct row of the granular table with a campaign has become a Meta row
\* under a new campaign name, and the passes have run on it again
C27_Witness ==
    /\ GranularPassed
    /\ hp_in.arg[1].channel = "Direct" /\ hp_in.arg[1].utm_campaign = "c1"
    /\ hp_in.arg[1].campaign_name = Some("Summer")
    /\ hp_out[1][1].channel = "Meta"
    /\ hp_out[1][1].campaign_name = Some("Meta Campaign - c1")
    /\ hp_out[2] = hp_out[1]

====
